---- MODULE Spec2Model ----
(***************************************************************************)
(* A model of the Universal Command Wrapper (ucw): the help-text acquirer  *)
(* (BaseParser._get_help_text and the platform alternatives), and the      *)
(* extractors that turn help text into a CommandSpec.                      *)
(*                                                                         *)
(* A Python str is modelled as a sequence of one-character strings, so     *)
(* that strip, split, lower, substring tests and the regular expressions   *)
(* of the source are computed character by character.                      *)
(***************************************************************************)
EXTENDS Integers, Sequences, FiniteSets, TLC

(***************************************************************************)
(* Characters and the str methods the source uses.                         *)
(***************************************************************************)
LowerLetters == <<"a","b","c","d","e","f","g","h","i","j","k","l","m",
                  "n","o","p","q","r","s","t","u","v","w","x","y","z">>
UpperLetters == <<"A","B","C","D","E","F","G","H","I","J","K","L","M",
                  "N","O","P","Q","R","S","T","U","V","W","X","Y","Z">>
DigitChars == {"0","1","2","3","4","5","6","7","8","9"}
LowerSet == {LowerLetters[i] : i \in 1..26}
UpperSet == {UpperLetters[i] : i \in 1..26}
LetterSet == LowerSet \cup UpperSet
\* \w of the re module (ASCII part)
WordChars == LetterSet \cup DigitChars \cup {"_"}
\* the characters str.strip(), str.split() and \s treat as whitespace
Whitespace == {" ", "\t", "\n", "\r", "\f"}

LowerChar(c) == IF c \in UpperSet
                THEN LowerLetters[CHOOSE i \in 1..26 : UpperLetters[i] = c]
                ELSE c
UpperChar(c) == IF c \in LowerSet
                THEN UpperLetters[CHOOSE i \in 1..26 : LowerLetters[i] = c]
                ELSE c

\* str.lower(), str.upper()
str_lower(s) == [i \in 1..Len(s) |-> LowerChar(s[i])]
str_upper(s) == [i \in 1..Len(s) |-> UpperChar(s[i])]

\* s[a:b] with 1-based inclusive bounds, empty when a > b
Slice(s, a, b) == IF a > b THEN <<>> ELSE SubSeq(s, a, b)

\* str.strip(): leading and trailing whitespace removed
str_strip(s) ==
  LET nonws == {i \in 1..Len(s) : s[i] \notin Whitespace}
  IN IF nonws = {} THEN <<>>
     ELSE LET a == CHOOSE i \in nonws : \A j \in nonws : i <= j
              b == CHOOSE i \in nonws : \A j \in nonws : i >= j
          IN SubSeq(s, a, b)

\* s.startswith(p), s.endswith(p)
str_startswith(s, p) == Len(p) <= Len(s) /\ SubSeq(s, 1, Len(p)) = p
str_endswith(s, p) ==
  Len(p) <= Len(s) /\ Slice(s, Len(s) - Len(p) + 1, Len(s)) = p
\* s.startswith((p1, p2, ...)) with a tuple of prefixes
str_startswith_any(s, ps) == \E k \in 1..Len(ps) : str_startswith(s, ps[k])

\* the positions at which sub occurs in s
Occurrences(s, sub) ==
  {i \in 1..(Len(s) - Len(sub) + 1) : SubSeq(s, i, i + Len(sub) - 1) = sub}
\* sub in s
str_contains(s, sub) == Len(sub) = 0 \/ Occurrences(s, sub) # {}
\* s.find(sub), 1-based; 0 when absent
str_find(s, sub) ==
  LET occ == Occurrences(s, sub)
  IN IF occ = {} THEN 0 ELSE CHOOSE i \in occ : \A j \in occ : i <= j

\* s.replace(old, '', 1): the first occurrence of old removed
str_remove_first(s, old) ==
  LET i == str_find(s, old)
  IN IF i = 0 \/ Len(old) = 0 THEN s
     ELSE Slice(s, 1, i - 1) \o Slice(s, i + Len(old), Len(s))

\* s.split(c) for a one-character separator c: always at least one part
RECURSIVE str_split(_, _)
str_split(s, c) ==
  LET i == str_find(s, <<c>>)
  IN IF i = 0 THEN <<s>>
     ELSE <<Slice(s, 1, i - 1)>> \o str_split(Slice(s, i + 1, Len(s)), c)

\* s.split(c, 1)[1]: what follows the first c (c is known to occur)
AfterFirst(s, c) == Slice(s, str_find(s, <<c>>) + 1, Len(s))

\* s.split(): the maximal runs of non-whitespace characters
RECURSIVE str_split_ws(_)
str_split_ws(s) ==
  LET t == str_strip(s)
  IN IF t = <<>> THEN <<>>
     ELSE LET ws == {i \in 1..Len(t) : t[i] \in Whitespace}
          IN IF ws = {} THEN <<t>>
             ELSE LET e == CHOOSE i \in ws : \A j \in ws : i <= j
                  IN <<SubSeq(t, 1, e - 1)>> \o str_split_ws(Slice(t, e, Len(t)))

\* sep.join(parts)
RECURSIVE str_join(_, _)
str_join(parts, sep) ==
  IF parts = <<>> THEN <<>>
  ELSE IF Len(parts) = 1 THEN parts[1]
  ELSE parts[1] \o sep \o str_join(Tail(parts), sep)

(***************************************************************************)
(* The part of Python's re module that the source uses.  A pattern is a    *)
(* sequence of nodes; matching backtracks in the order of the re module    *)
(* (greedy counts from the longest run down, lazy ones from the shortest   *)
(* up, an optional group is tried before it is skipped), so the match      *)
(* found and its groups are the ones re.match returns.  Every quantifier   *)
(* of the source applies to one character or character class, or is a "?"  *)
(* on a group.                                                             *)
(***************************************************************************)
\* a literal character; a character class [...]; a negated class [^...]
Ch(c) == [t |-> "set", s |-> {c}, neg |-> FALSE]
In(S) == [t |-> "set", s |-> S, neg |-> FALSE]
NotIn(S) == [t |-> "set", s |-> S, neg |-> TRUE]
\* x* , x+ , x*? , x+? for a character or class x
Star(x) == [t |-> "rep", of |-> x, min |-> 0, lazy |-> FALSE]
Plus(x) == [t |-> "rep", of |-> x, min |-> 1, lazy |-> FALSE]
StarLazy(x) == [t |-> "rep", of |-> x, min |-> 0, lazy |-> TRUE]
\* (?:rs)? and x? ; the capturing group number k ; ^
Opt(rs) == [t |-> "opt", rs |-> rs]
Grp(k, rs) == [t |-> "grp", k |-> k, rs |-> rs]
Bol == [t |-> "bol"]
GrpEnd(k, a) == [t |-> "end", k |-> k, from |-> a]
\* a literal string as a pattern
Lit(w) == [k \in 1..Len(w) |-> Ch(w[k])]
\* \w \s . and the classes of the option patterns
ReWord == In(WordChars)
ReSpace == In(Whitespace)
ReDot == NotIn({"\n"})

\* whether c is matched by the class x; ic is re.IGNORECASE
CharMatches(c, x, ic) ==
  (c \in x.s \/ (ic /\ (LowerChar(c) \in x.s \/ UpperChar(c) \in x.s))) # x.neg

\* the length of the longest run of characters of class x from position i
RunLen(s, i, x, ic) ==
  LET bad == {j \in i..Len(s) : ~CharMatches(s[j], x, ic)}
  IN IF bad = {} THEN Len(s) - i + 1
     ELSE (CHOOSE j \in bad : \A k \in bad : j <= k) - i

ReFail == [ok |-> FALSE, end |-> 0, caps |-> <<>>]
\* the value of a group that took no part in the match, and of None at large
None == <<"None">>

RECURSIVE re_run(_, _, _, _, _)
RECURSIVE re_count(_, _, _, _, _, _, _, _)
\* rs matched against s from position i on: [ok, end, caps], end being the
\* position after the match and caps[k] the <<from, to>> of group k
re_run(rs, s, i, caps, ic) ==
  IF rs = <<>> THEN [ok |-> TRUE, end |-> i, caps |-> caps]
  ELSE
    LET r == Head(rs)
        rest == Tail(rs)
    IN CASE r.t = "set" ->
              IF i <= Len(s) /\ CharMatches(s[i], r, ic)
              THEN re_run(rest, s, i + 1, caps, ic)
              ELSE ReFail
         [] r.t = "rep" ->
              LET m == RunLen(s, i, r.of, ic)
              IN IF m < r.min THEN ReFail
                 ELSE IF r.lazy
                 THEN re_count(rest, s, i, caps, ic, r.min, m, 1)
                 ELSE re_count(rest, s, i, caps, ic, m, r.min, -1)
         [] r.t = "opt" ->
              LET a == re_run(r.rs \o rest, s, i, caps, ic)
              IN IF a.ok THEN a ELSE re_run(rest, s, i, caps, ic)
         [] r.t = "grp" ->
              re_run(r.rs \o <<GrpEnd(r.k, i)>> \o rest, s, i, caps, ic)
         [] r.t = "end" ->
              re_run(rest, s, i, [caps EXCEPT ![r.k] = <<r.from, i>>], ic)
         [] r.t = "bol" ->
              IF i = 1 THEN re_run(rest, s, i, caps, ic) ELSE ReFail
\* the counts k, k + step, ... , last of a repetition, tried in that order
re_count(rest, s, i, caps, ic, k, last, step) ==
  LET a == re_run(rest, s, i + k, caps, ic)
  IN IF a.ok THEN a
     ELSE IF k = last THEN ReFail
     ELSE re_count(rest, s, i, caps, ic, k + step, last, step)

NoGroups(ng) == [k \in 1..ng |-> None]
\* re.match(pattern, s) for a pattern of ng groups
re_match(rs, ng, s, ic) == re_run(rs, s, 1, NoGroups(ng), ic)
\* match.groups()[k - 1]: the text of group k, None if it took no part
re_group(m, s, k) ==
  IF m.caps[k] = None THEN None
  ELSE Slice(s, m.caps[k][1], m.caps[k][2] - 1)

\* re.search(pattern, s): whether the pattern matches at some position
re_search(rs, s, ic) ==
  \E i \in 1..(Len(s) + 1) : re_run(rs, s, i, <<>>, ic).ok

\* re.sub(pattern, repl, s): every leftmost non-overlapping match replaced.
\* No pattern the source substitutes can match the empty string.
RECURSIVE re_sub_from(_, _, _, _, _)
re_sub_from(rs, repl, s, i, ic) ==
  LET hits == {j \in i..Len(s) :
                 LET m == re_run(rs, s, j, <<>>, ic) IN m.ok /\ m.end > j}
  IN IF hits = {} THEN Slice(s, i, Len(s))
     ELSE LET j == CHOOSE a \in hits : \A b \in hits : a <= b
              m == re_run(rs, s, j, <<>>, ic)
          IN Slice(s, i, j - 1) \o repl \o re_sub_from(rs, repl, s, m.end, ic)
re_sub(rs, repl, s, ic) == re_sub_from(rs, repl, s, 1, ic)

(***************************************************************************)
(* BaseParser: the extractors shared by both platforms (parser/base.py).   *)
(***************************************************************************)
\* the keywords that make a line a usage header
UsageKeywords == <<<<"u","s","a","g","e",":">>, <<"s","y","n","t","a","x",":">>, <<"c","o","m","m","a","n","d",":">>>>
\* the characters that make an indented line a continuation of the usage
UsageChars == {"<", ">", "[", "]", "-", "|"}
\* the section names that cannot start a usage in the block layout
SectionMarkers ==
  <<<<"C","O","R","E">>, <<"G","I","T","H","U","B">>, <<"A","L","I","A","S">>, <<"A","D","D","I","T","I","O","N","A","L">>, <<"H","E","L","P">>, <<"F","L","A","G","S">>,
    <<"O","P","T","I","O","N","S">>, <<"E","X","A","M","P","L","E","S">>, <<"I","N","H","E","R","I","T","E","D">>, <<"T","H","E","S","E">>, <<"S","T","A","R","T">>, <<"W","O","R","K">>,
    <<"E","X","A","M","I","N","E">>, <<"G","R","O","W">>>>

Min(a, b) == IF a <= b THEN a ELSE b

\* whether lines[i] is a usage header
is_usage_header(line) ==
  LET line_lower == str_lower(str_strip(line))
  IN \/ line_lower = <<"u","s","a","g","e">>
     \/ \E k \in 1..Len(UsageKeywords) : str_contains(line_lower, UsageKeywords[k])

\* the continuation lines among lines[j..last]: the stripped lines up to the
\* first one that is blank, not indented or without a usage-like character
RECURSIVE Continuation(_, _, _)
Continuation(lines, j, last) ==
  IF j > last THEN <<>>
  ELSE LET next_line == lines[j]
           next_stripped == str_strip(next_line)
       IN IF next_stripped = <<>> THEN <<>>
          ELSE IF /\ str_startswith(next_line, <<" ">>)
                  /\ \E c \in UsageChars : str_contains(next_stripped, <<c>>)
          THEN <<next_stripped>> \o Continuation(lines, j + 1, last)
          ELSE <<>>

\* UsageAt without the last resort of returning the header line itself
Mut_UsageAt(lines, i) ==
  LET n == Len(lines)
      line_stripped == str_strip(lines[i])
      usage_part == IF str_contains(line_stripped, <<":">>)
                    THEN str_strip(AfterFirst(line_stripped, ":"))
                    ELSE <<>>
      starts == {j \in (i + 1)..Min(i + 5, n) :
                   /\ str_strip(lines[j]) # <<>>
                   /\ ~str_startswith_any(str_upper(str_strip(lines[j])),
                                          SectionMarkers)}
  IN IF usage_part # <<>>
     THEN str_join(<<usage_part>> \o Continuation(lines, i + 1, Min(i + 5, n)),
                   <<" ">>)
     ELSE IF starts # {}
     THEN LET j == CHOOSE a \in starts : \A b \in starts : a <= b
          IN str_join(<<str_strip(lines[j])>>
                        \o Continuation(lines, j + 1, Min(j + 4, n)),
                      <<" ">>)
     ELSE <<>>

\* what _extract_usage returns once lines[i] is the first usage header
UsageAt(lines, i) ==
  LET n == Len(lines)
      line_stripped == str_strip(lines[i])
      usage_part == IF str_contains(line_stripped, <<":">>)
                    THEN str_strip(AfterFirst(line_stripped, ":"))
                    ELSE <<>>
      \* the lines of the look-ahead that can start a usage (block layout)
      starts == {j \in (i + 1)..Min(i + 5, n) :
                   /\ str_strip(lines[j]) # <<>>
                   /\ ~str_startswith_any(str_upper(str_strip(lines[j])),
                                          SectionMarkers)}
  IN IF usage_part # <<>>
     THEN str_join(<<usage_part>> \o Continuation(lines, i + 1, Min(i + 5, n)),
                   <<" ">>)
     ELSE IF starts # {}
     THEN LET j == CHOOSE a \in starts : \A b \in starts : a <= b
          IN str_join(<<str_strip(lines[j])>>
                        \o Continuation(lines, j + 1, Min(j + 4, n)),
                      <<" ">>)
     ELSE line_stripped

_extract_usage(help_text) ==
  LET lines == str_split(help_text, "\n")
      headers == {i \in 1..Len(lines) : is_usage_header(lines[i])}
  IN IF headers = {} THEN <<>>
     ELSE UsageAt(lines, CHOOSE i \in headers : \A j \in headers : i <= j)

\* -?  --?  \w+  \s*  as they occur in the option patterns
OptDash == Opt(<<Ch("-")>>)
Dashes == <<Ch("-"), OptDash>>
\* the bracketed option patterns removed from the usage line, in order
option_patterns ==
  << \* \[-?\w+\s*\|\s*--?\w+\]
     <<Ch("["), OptDash, Plus(ReWord), Star(ReSpace), Ch("|"), Star(ReSpace)>>
       \o Dashes \o <<Plus(ReWord), Ch("]")>>,
     \* \[-?\w+\s*\|\s*--?\w+\s*\|\s*--?\w+\s*\|\s*--?\w+\]
     <<Ch("["), OptDash, Plus(ReWord), Star(ReSpace), Ch("|"), Star(ReSpace)>>
       \o Dashes \o <<Plus(ReWord), Star(ReSpace), Ch("|"), Star(ReSpace)>>
       \o Dashes \o <<Plus(ReWord), Star(ReSpace), Ch("|"), Star(ReSpace)>>
       \o Dashes \o <<Plus(ReWord), Ch("]")>>,
     \* \[-?\w+\s*\|\s*--?\w+\s*\|\s*--?\w+\]
     <<Ch("["), OptDash, Plus(ReWord), Star(ReSpace), Ch("|"), Star(ReSpace)>>
       \o Dashes \o <<Plus(ReWord), Star(ReSpace), Ch("|"), Star(ReSpace)>>
       \o Dashes \o <<Plus(ReWord), Ch("]")>>,
     \* \[--?\w+\[?=?\s*<\w+>\]?\]
     <<Ch("[")>> \o Dashes
       \o <<Plus(ReWord), Opt(<<Ch("[")>>), Opt(<<Ch("=")>>), Star(ReSpace),
            Ch("<"), Plus(ReWord), Ch(">"), Opt(<<Ch("]")>>), Ch("]")>>,
     \* \[--?\w+\]
     <<Ch("[")>> \o Dashes \o <<Plus(ReWord), Ch("]")>>,
     \* \[-?\w+\s*=\s*<\w+>\]
     <<Ch("["), OptDash, Plus(ReWord), Star(ReSpace), Ch("="), Star(ReSpace),
       Ch("<"), Plus(ReWord), Ch(">"), Ch("]")>>,
     \* \[-?\w+\s*<\w+>\]
     <<Ch("["), OptDash, Plus(ReWord), Star(ReSpace),
       Ch("<"), Plus(ReWord), Ch(">"), Ch("]")>>,
     \* \[option\]\.\.\.
     Lit(<<"[","o","p","t","i","o","n","]",".",".",".">>),
     \* \[option\]
     Lit(<<"[","o","p","t","i","o","n","]">>),
     \* \[flags?\]
     Lit(<<"[","f","l","a","g">>) \o <<Opt(<<Ch("s")>>), Ch("]")>>,
     \* \[flag\]
     Lit(<<"[","f","l","a","g","]">>),
     \* \[-t\]  \[-h\]  \[-l\]  \[-p\]
     Lit(<<"[","-","t","]">>),
     Lit(<<"[","-","h","]">>),
     Lit(<<"[","-","l","]">>),
     Lit(<<"[","-","p","]">>),
     \* \[-o\w*\]
     Lit(<<"[","-","o">>) \o <<Star(ReWord), Ch("]")>>,
     \* \[-d\w*\]
     Lit(<<"[","-","d">>) \o <<Star(ReWord), Ch("]")>>,
     \* \[-d\s+\w+\]
     Lit(<<"[","-","d">>) \o <<Plus(ReSpace), Plus(ReWord), Ch("]")>>,
     \* \[-olevel\]
     Lit(<<"[","-","o","l","e","v","e","l","]">>),
     \* \[-d\s+debugopts\]
     Lit(<<"[","-","d">>) \o <<Plus(ReSpace)>> \o Lit(<<"d","e","b","u","g","o","p","t","s","]">>) >>

\* for pattern in option_patterns: usage_clean = re.sub(pattern, '', ...)
RECURSIVE RemoveOptionPatterns(_, _)
RemoveOptionPatterns(s, k) ==
  IF k > Len(option_patterns) THEN s
  ELSE LET removed == re_sub(option_patterns[k], <<>>, s, TRUE)
       IN IF removed = s
          THEN RemoveOptionPatterns(s, k + 1)
          ELSE RemoveOptionPatterns(removed, k + 1)

\* UsageClean that keeps the first word instead of removing it as the
\* command name
Mut_UsageClean(usage) ==
  LET lowered == str_lower(usage)
      no_prefix == re_sub(<<Bol>> \o Lit(<<"u","s","a","g","e",":">>) \o <<Star(ReSpace)>>,
                          <<>>, lowered, TRUE)
      no_options == RemoveOptionPatterns(no_prefix, 1)
      no_pipes == re_sub(<<Star(ReSpace), Ch("|"), Star(ReSpace)>>, <<" ">>,
                         no_options, FALSE)
  IN str_strip(re_sub(<<Plus(ReSpace)>>, <<" ">>, no_pipes, FALSE))

\* usage_clean of _extract_positional_args: the usage line in lower case
\* without its "usage:" prefix, its command name, the option patterns and
\* the pipes, and with its whitespace normalized
UsageClean(usage) ==
  LET lowered == str_lower(usage)
      \* re.sub(r'^usage:\s*', '', usage_clean, flags=re.IGNORECASE)
      no_prefix == re_sub(<<Bol>> \o Lit(<<"u","s","a","g","e",":">>) \o <<Star(ReSpace)>>,
                          <<>>, lowered, TRUE)
      \* re.search(r'^(\w+)', usage_clean)
      command_match == re_match(<<Bol, Grp(1, <<Plus(ReWord)>>)>>, 1,
                                no_prefix, FALSE)
      no_command == IF command_match.ok
                    THEN str_remove_first(no_prefix,
                                          re_group(command_match, no_prefix, 1))
                    ELSE no_prefix
      no_options == RemoveOptionPatterns(no_command, 1)
      \* re.sub(r'\s*\|\s*', ' ', usage_clean)
      no_pipes == re_sub(<<Star(ReSpace), Ch("|"), Star(ReSpace)>>, <<" ">>,
                         no_options, FALSE)
      \* re.sub(r'\s+', ' ', usage_clean).strip()
  IN str_strip(re_sub(<<Plus(ReSpace)>>, <<" ">>, no_pipes, FALSE))

PositionalArgSpec(name, required, variadic, type_hint) ==
  [name |-> name, required |-> required, variadic |-> variadic,
   description |-> None, type_hint |-> type_hint]

PathWords == <<<<"f","i","l","e">>, <<"p","a","t","h">>, <<"d","i","r","e","c","t","o","r","y">>, <<"d","i","r">>, <<"s","o","u","r","c","e">>,
               <<"d","e","s","t">>, <<"t","a","r","g","e","t">>>>
StrWords == <<<<"p","a","t","t","e","r","n">>, <<"s","t","r","i","n","g">>, <<"t","e","x","t">>, <<"n","a","m","e">>>>
IntWords == <<<<"n","u","m","b","e","r">>, <<"c","o","u","n","t">>, <<"s","i","z","e">>, <<"p","o","r","t">>>>
\* any(word in text for word in words)
AnyWordIn(words, text) == \E k \in 1..Len(words) : str_contains(text, words[k])

_infer_positional_type(arg_name) ==
  LET arg_lower == str_lower(arg_name)
  IN IF AnyWordIn(PathWords, arg_lower) THEN "path"
     ELSE IF AnyWordIn(StrWords, arg_lower) THEN "str"
     ELSE IF AnyWordIn(IntWords, arg_lower) THEN "int"
     ELSE "str"

Separators == {<<"|">>, <<"|","|">>, <<"&","&">>, <<"=">>, <<"=","=">>}
\* InvalidChars without the dash
Mut_InvalidChars == {"[", "]", "|", "="}

InvalidChars == {"[", "]", "|", "=", "-"}
\* part[1:-1]
Inner(part) == Slice(part, 2, Len(part) - 1)
Bracketed(part, open, close) ==
  str_startswith(part, <<open>>) /\ str_endswith(part, <<close>>)

Mut_IsRequired(part) == TRUE

\* required = not (part.startswith('[') and part.endswith(']'))
IsRequired(part) == ~Bracketed(part, "[", "]")

\* if part.endswith('...'): part = part[:-3]
StripVariadic(part) ==
  IF str_endswith(part, <<".",".",".">>) THEN Slice(part, 1, Len(part) - 3) ELSE part

\* one token of the cleaned usage line: the args it contributes (none or one)
PartArgs(part) ==
  IF \/ part = <<>> \/ part = <<":">>
     \/ part \in Separators
     \/ str_startswith(part, <<"-">>) \/ str_startswith(part, <<"-","-">>)
     \/ (str_contains(part, <<"=">>) /\ ~str_startswith(part, <<"<">>))
     \/ (Len(part) = 1 /\ part \notin {<<"<">>, <<">">>})
  THEN <<>>
  ELSE
    LET required == IsRequired(part)
        unbracketed == IF Bracketed(part, "[", "]") THEN Inner(part) ELSE part
        variadic == str_endswith(unbracketed, <<".",".",".">>)
        base == StripVariadic(unbracketed)
    IN IF base = <<>> \/ base \in {<<"<">>, <<">">>, <<"<",">">>} THEN <<>>
       ELSE LET name == IF Bracketed(base, "<", ">") THEN Inner(base) ELSE base
            IN IF \/ Len(name) < 2
                  \/ \E c \in InvalidChars : str_contains(name, <<c>>)
               THEN <<>>
               ELSE <<PositionalArgSpec(str_upper(name), required, variadic,
                                        _infer_positional_type(name))>>

RECURSIVE PartsArgs(_)
PartsArgs(parts) ==
  IF parts = <<>> THEN <<>>
  ELSE PartArgs(Head(parts)) \o PartsArgs(Tail(parts))

\* _extract_positional_args that goes on to the generic token parsing after
\* a lone <command> or an <args> idiom
Mut_positional_args_fall_through(usage) ==
  IF usage = <<>> THEN <<>>
  ELSE
    LET original_usage == str_lower(usage)
        gh_like == re_search(Lit(<<"<","c","o","m","m","a","n","d",">">>) \o <<Plus(ReSpace)>>
                               \o Lit(<<"<","s","u","b","c","o","m","m","a","n","d",">">>), original_usage, TRUE)
        has_command == re_search(Lit(<<"<","c","o","m","m","a","n","d",">">>), original_usage, TRUE)
        has_args == \/ re_search(Lit(<<"[","<","a","r","g","s",">","]">>), original_usage, TRUE)
                    \/ re_search(Lit(<<"[","<","a","r","g","s",">",".",".",".","]">>), original_usage, TRUE)
                    \/ re_search(Lit(<<"<","a","r","g","s",">",".",".",".">>), original_usage, TRUE)
        git_like ==
          (IF has_command
           THEN <<PositionalArgSpec(<<"C","O","M","M","A","N","D">>, TRUE, FALSE, "str")>>
           ELSE <<>>)
          \o (IF has_args
              THEN <<PositionalArgSpec(<<"A","R","G","S">>, FALSE, TRUE, "str")>>
              ELSE <<>>)
    IN IF gh_like
       THEN <<PositionalArgSpec(<<"C","O","M","M","A","N","D">>, TRUE, FALSE, "str"),
              PositionalArgSpec(<<"S","U","B","C","O","M","M","A","N","D">>, TRUE, FALSE, "str")>>
       ELSE git_like \o PartsArgs(str_split_ws(UsageClean(usage)))

\* _extract_positional_args that looks for a lone <command> before it looks
\* for <command> <subcommand>
Mut_extract_positional_args(usage) ==
  IF usage = <<>> THEN <<>>
  ELSE
    LET original_usage == str_lower(usage)
        gh_like == re_search(Lit(<<"<","c","o","m","m","a","n","d",">">>) \o <<Plus(ReSpace)>>
                               \o Lit(<<"<","s","u","b","c","o","m","m","a","n","d",">">>), original_usage, TRUE)
        has_command == re_search(Lit(<<"<","c","o","m","m","a","n","d",">">>), original_usage, TRUE)
        has_args == \/ re_search(Lit(<<"[","<","a","r","g","s",">","]">>), original_usage, TRUE)
                    \/ re_search(Lit(<<"[","<","a","r","g","s",">",".",".",".","]">>), original_usage, TRUE)
                    \/ re_search(Lit(<<"<","a","r","g","s",">",".",".",".">>), original_usage, TRUE)
        git_like ==
          (IF has_command
           THEN <<PositionalArgSpec(<<"C","O","M","M","A","N","D">>, TRUE, FALSE, "str")>>
           ELSE <<>>)
          \o (IF has_args
              THEN <<PositionalArgSpec(<<"A","R","G","S">>, FALSE, TRUE, "str")>>
              ELSE <<>>)
    IN IF git_like # <<>> THEN git_like
       ELSE IF gh_like
       THEN <<PositionalArgSpec(<<"C","O","M","M","A","N","D">>, TRUE, FALSE, "str"),
              PositionalArgSpec(<<"S","U","B","C","O","M","M","A","N","D">>, TRUE, FALSE, "str")>>
       ELSE PartsArgs(str_split_ws(UsageClean(usage)))

_extract_positional_args(usage) ==
  IF usage = <<>> THEN <<>>
  ELSE
    LET original_usage == str_lower(usage)
        \* <command>\s+<subcommand>
        gh_like == re_search(Lit(<<"<","c","o","m","m","a","n","d",">">>) \o <<Plus(ReSpace)>>
                               \o Lit(<<"<","s","u","b","c","o","m","m","a","n","d",">">>), original_usage, TRUE)
        has_command == re_search(Lit(<<"<","c","o","m","m","a","n","d",">">>), original_usage, TRUE)
        \* \[<args>\]|\[<args>\.\.\.\]|<args>\.\.\.
        has_args == \/ re_search(Lit(<<"[","<","a","r","g","s",">","]">>), original_usage, TRUE)
                    \/ re_search(Lit(<<"[","<","a","r","g","s",">",".",".",".","]">>), original_usage, TRUE)
                    \/ re_search(Lit(<<"<","a","r","g","s",">",".",".",".">>), original_usage, TRUE)
        git_like ==
          (IF has_command
           THEN <<PositionalArgSpec(<<"C","O","M","M","A","N","D">>, TRUE, FALSE, "str")>>
           ELSE <<>>)
          \o (IF has_args
              THEN <<PositionalArgSpec(<<"A","R","G","S">>, FALSE, TRUE, "str")>>
              ELSE <<>>)
    IN IF gh_like
       THEN <<PositionalArgSpec(<<"C","O","M","M","A","N","D">>, TRUE, FALSE, "str"),
              PositionalArgSpec(<<"S","U","B","C","O","M","M","A","N","D">>, TRUE, FALSE, "str")>>
       ELSE IF git_like # <<>> THEN git_like
       ELSE PartsArgs(str_split_ws(UsageClean(usage)))

\* type_hint = None
NoHint == "None"

\* _infer_type_hint that looks for the int words before the path words
Mut_infer_type_hint(description) ==
  IF description = <<>> THEN NoHint
  ELSE LET description_lower == str_lower(description)
       IN IF AnyWordIn(<<<<"n","u","m","b","e","r">>, <<"c","o","u","n","t">>, <<"s","i","z","e">>>>, description_lower)
          THEN "int"
          ELSE IF AnyWordIn(<<<<"f","i","l","e">>, <<"p","a","t","h">>, <<"d","i","r","e","c","t","o","r","y">>>>, description_lower)
          THEN "path"
          ELSE IF AnyWordIn(<<<<"v","e","r","b","o","s","e">>, <<"q","u","i","e","t">>, <<"d","e","b","u","g">>>>, description_lower)
          THEN "bool"
          ELSE "str"

_infer_type_hint(description) ==
  IF description = <<>> THEN NoHint
  ELSE LET description_lower == str_lower(description)
       IN IF AnyWordIn(<<<<"f","i","l","e">>, <<"p","a","t","h">>, <<"d","i","r","e","c","t","o","r","y">>>>, description_lower)
          THEN "path"
          ELSE IF AnyWordIn(<<<<"n","u","m","b","e","r">>, <<"c","o","u","n","t">>, <<"s","i","z","e">>>>, description_lower)
          THEN "int"
          ELSE IF AnyWordIn(<<<<"v","e","r","b","o","s","e">>, <<"q","u","i","e","t">>, <<"d","e","b","u","g">>>>, description_lower)
          THEN "bool"
          ELSE "str"

OptionSpec(flag, takes_value, description, type_hint) ==
  [flag |-> flag, takes_value |-> takes_value, description |-> description,
   type_hint |-> type_hint, required |-> FALSE, default |-> None]

(***************************************************************************)
(* PosixParser (parser/posix.py).                                          *)
(***************************************************************************)
\* --[a-zA-Z][a-zA-Z0-9-]*
LongFlag == <<Ch("-"), Ch("-"), In(LetterSet),
              Star(In(LetterSet \cup DigitChars \cup {"-"}))>>
\* -[a-zA-Z]
ShortFlag == <<Ch("-"), In(LetterSet)>>

Posix_is_option_line(line) ==
  \/ re_match(<<Bol, Star(ReSpace)>> \o ShortFlag, 0, line, FALSE).ok
  \/ re_match(<<Bol, Star(ReSpace), Ch("-"), Ch("-"), In(LetterSet)>>,
              0, line, FALSE).ok

\* the patterns of _parse_option_line, most specific first; the first three
\* have three groups, the last one two
PosixOptionPatterns ==
  << \* ^\s*(-[a-zA-Z])(?:\[[^\]]*\])?\s*<(\w+)>\s*(.*)
     <<Bol, Star(ReSpace), Grp(1, ShortFlag),
       Opt(<<Ch("["), Star(NotIn({"]"})), Ch("]")>>), Star(ReSpace),
       Ch("<"), Grp(2, <<Plus(ReWord)>>), Ch(">"), Star(ReSpace),
       Grp(3, <<Star(ReDot)>>)>>,
     \* ^\s*(--[a-zA-Z][a-zA-Z0-9-]*)=(\w+)\s*(.*)
     <<Bol, Star(ReSpace), Grp(1, LongFlag), Ch("="), Grp(2, <<Plus(ReWord)>>),
       Star(ReSpace), Grp(3, <<Star(ReDot)>>)>>,
     \* ^\s*(-[a-zA-Z])(?:,\s*(--[a-zA-Z][a-zA-Z0-9-]*))?\s*(.*)
     <<Bol, Star(ReSpace), Grp(1, ShortFlag),
       Opt(<<Ch(","), Star(ReSpace), Grp(2, LongFlag)>>), Star(ReSpace),
       Grp(3, <<Star(ReDot)>>)>>,
     \* ^\s*(--[a-zA-Z][a-zA-Z0-9-]*)\s*(.*)
     <<Bol, Star(ReSpace), Grp(1, LongFlag), Star(ReSpace),
       Grp(2, <<Star(ReDot)>>)>> >>
PosixOptionGroups == <<3, 3, 3, 2>>

ValueWords == <<<<"A","R","G">>, <<"S","I","Z","E">>, <<"W","O","R","D">>, <<"C","O","L","S">>, <<"P","A","T","T","E","R","N">>, <<"W","H","E","N">>>>

\* PosixOptionOf that takes every option with a description to take a value
Mut_PosixOptionOf(line, k, g) ==
  LET primary_flag ==
        IF PosixOptionGroups[k] = 3
        THEN IF /\ g[2] # None /\ g[2] # <<>>
                /\ (str_contains(line, <<"=">>) \/ str_contains(line, <<"<">>))
             THEN g[1]
             ELSE IF g[2] # None /\ g[2] # <<>> THEN g[2] ELSE g[1]
        ELSE g[1]
      description == IF PosixOptionGroups[k] = 3 THEN g[3] ELSE g[2]
      takes_value == \/ str_contains(line, <<"=">>)
                     \/ str_strip(description) # <<>>
  IN OptionSpec(primary_flag, takes_value, str_strip(description),
                _infer_type_hint(description))

\* the OptionSpec of a line that pattern number k matched with the groups g
PosixOptionOf(line, k, g) ==
  LET primary_flag ==
        IF PosixOptionGroups[k] = 3
        THEN IF /\ g[2] # None /\ g[2] # <<>>
                /\ (str_contains(line, <<"=">>) \/ str_contains(line, <<"<">>))
             THEN g[1]
             ELSE IF g[2] # None /\ g[2] # <<>> THEN g[2] ELSE g[1]
        ELSE g[1]
      description == IF PosixOptionGroups[k] = 3 THEN g[3] ELSE g[2]
      takes_value == \/ str_contains(line, <<"=">>)
                     \/ AnyWordIn(ValueWords, str_upper(description))
  IN OptionSpec(primary_flag, takes_value, str_strip(description),
                _infer_type_hint(description))

\* for pattern in patterns: the option of the first pattern that matches, as
\* a sequence of one OptionSpec; the empty sequence stands for None
RECURSIVE PosixParseFrom(_, _)
PosixParseFrom(line, k) ==
  IF k > Len(PosixOptionPatterns) THEN <<>>
  ELSE LET ng == PosixOptionGroups[k]
           match == re_match(PosixOptionPatterns[k], ng, line, FALSE)
       IN IF match.ok
          THEN <<PosixOptionOf(line, k,
                               [n \in 1..ng |-> re_group(match, line, n)])>>
          ELSE PosixParseFrom(line, k + 1)

Posix_parse_option_line(line) == PosixParseFrom(line, 1)

\* the texts by which _extract_description recognizes a failed acquisition
ErrorMessages == <<<<"F","a","i","l","e","d"," ","t","o"," ","g","e","t"," ","h","e","l","p">>, <<"H","e","l","p"," ","c","o","m","m","a","n","d"," ","t","i","m","e","d"," ","o","u","t">>,
                   <<"N","o"," ","h","e","l","p"," ","a","v","a","i","l","a","b","l","e">>>>
ManHeaders == <<<<"S","Y","N","O","P","S","I","S">>, <<"D","E","S","C","R","I","P","T","I","O","N">>, <<"O","P","T","I","O","N","S">>>>
PosixMarkers == <<<<"U","s","a","g","e",":">>, <<"S","Y","N","O","P","S","I","S",":">>, <<"-">>, <<"O","p","t","i","o","n","s",":">>>>

\* the loop over the NAME section: [found, value]
RECURSIVE PosixNameScan(_, _)
PosixNameScan(lines, in_name_section) ==
  IF lines = <<>> THEN [found |-> FALSE, value |-> <<>>]
  ELSE
    LET line == str_strip(Head(lines))
    IN IF str_startswith(line, <<"N","A","M","E">>)
       THEN PosixNameScan(Tail(lines), TRUE)
       ELSE IF in_name_section /\ line # <<>>
               /\ ~str_startswith_any(line, ManHeaders)
       THEN IF str_contains(line, <<" ","-"," ">>)
            THEN [found |-> TRUE,
                  value |-> str_strip(Slice(line, str_find(line, <<" ","-"," ">>) + 3,
                                            Len(line)))]
            ELSE IF ~str_startswith(line, <<"-">>)
            THEN [found |-> TRUE, value |-> line]
            ELSE PosixNameScan(Tail(lines), in_name_section)
       ELSE IF in_name_section /\ str_startswith_any(line, ManHeaders)
       THEN [found |-> FALSE, value |-> <<>>]
       ELSE PosixNameScan(Tail(lines), in_name_section)

\* the first of the stripped lines[1..limit] that is neither empty nor
\* starts with one of the markers; "" if there is none
FirstPlainLine(lines, limit, markers) ==
  LET plain == {i \in 1..Min(limit, Len(lines)) :
                  /\ str_strip(lines[i]) # <<>>
                  /\ ~str_startswith_any(str_strip(lines[i]), markers)}
  IN IF plain = {} THEN <<>>
     ELSE str_strip(lines[CHOOSE i \in plain : \A j \in plain : i <= j])

PosixFallbackLines == 10

Posix_extract_description(help_text) ==
  IF AnyWordIn(ErrorMessages, help_text) THEN <<>>
  ELSE LET lines == str_split(help_text, "\n")
           name == PosixNameScan(lines, FALSE)
       IN IF name.found THEN name.value
          ELSE FirstPlainLine(lines, PosixFallbackLines, PosixMarkers)

\* the loop of _extract_examples, the same on both platforms but for the
\* markers that end the section
RECURSIVE ExamplesScan(_, _, _)
ExamplesScan(lines, in_examples, markers) ==
  IF lines = <<>> THEN <<>>
  ELSE
    LET line == str_strip(Head(lines))
    IN IF str_contains(str_lower(line), <<"e","x","a","m","p","l","e">>)
       THEN ExamplesScan(Tail(lines), TRUE, markers)
       ELSE IF in_examples /\ line # <<>> /\ ~str_startswith_any(line, markers)
       THEN <<line>> \o ExamplesScan(Tail(lines), in_examples, markers)
       ELSE IF in_examples /\ str_startswith_any(line, markers)
       THEN <<>>
       ELSE ExamplesScan(Tail(lines), in_examples, markers)

Posix_extract_examples(help_text) ==
  ExamplesScan(str_split(help_text, "\n"), FALSE, PosixMarkers)


(***************************************************************************)
(* WindowsParser (parser/windows.py).                                      *)
(***************************************************************************)
\* [/-]  and  [a-zA-Z][a-zA-Z0-9]*
SlashOrDash == In({"/", "-"})
WinFlagName == <<In(LetterSet), Star(In(LetterSet \cup DigitChars))>>

Windows_is_option_line(line) ==
  \/ re_match(<<Bol, Star(ReSpace), SlashOrDash, In(LetterSet)>>,
              0, line, FALSE).ok
  \/ re_match(<<Bol, Star(ReSpace), SlashOrDash, In(LetterSet), Ch("[")>>,
              0, line, FALSE).ok

\* ^\s*([/-])([a-zA-Z][a-zA-Z0-9]*)\[.*?\]\s+(.+)
WinComplexPattern ==
  <<Bol, Star(ReSpace), Grp(1, <<SlashOrDash>>), Grp(2, WinFlagName),
    Ch("["), StarLazy(ReDot), Ch("]"), Plus(ReSpace), Grp(3, <<Plus(ReDot)>>)>>
\* ^\s*([/-])([a-zA-Z][a-zA-Z0-9]*)(?::([a-zA-Z]+))?\s+(.+)
WinSimplePattern ==
  <<Bol, Star(ReSpace), Grp(1, <<SlashOrDash>>), Grp(2, WinFlagName),
    Opt(<<Ch(":"), Grp(3, <<Plus(In(LetterSet))>>)>>), Plus(ReSpace),
    Grp(4, <<Plus(ReDot)>>)>>

\* a sequence of one OptionSpec; the empty sequence stands for None
Windows_parse_option_line(line) ==
  LET complex_match == re_match(WinComplexPattern, 3, line, FALSE)
      simple_match == re_match(WinSimplePattern, 4, line, FALSE)
  IN IF complex_match.ok
     THEN LET flag == re_group(complex_match, line, 1)
                        \o re_group(complex_match, line, 2)
              description == re_group(complex_match, line, 3)
              takes_value ==
                \/ str_contains(line, <<":">>)
                \/ str_contains(str_lower(description), <<"v","a","l","u","e">>)
                \/ str_contains(str_lower(description), <<"s","p","e","c","i","f","y">>)
          IN <<OptionSpec(flag, takes_value, str_strip(description),
                          _infer_type_hint(description))>>
     ELSE IF simple_match.ok
     THEN LET flag == re_group(simple_match, line, 1)
                        \o re_group(simple_match, line, 2)
              value_type == re_group(simple_match, line, 3)
              description == re_group(simple_match, line, 4)
              takes_value == value_type # None \/ str_contains(line, <<":">>)
          IN <<OptionSpec(flag, takes_value, str_strip(description),
                          _infer_type_hint(description))>>
     ELSE <<>>

WindowsMarkers == <<<<"U","s","a","g","e",":">>, <<"S","y","n","t","a","x",":">>, <<"/">>, <<"-">>>>
WindowsFallbackLines == 5

Windows_extract_description(help_text) ==
  IF AnyWordIn(ErrorMessages, help_text) THEN <<>>
  ELSE FirstPlainLine(str_split(help_text, "\n"), WindowsFallbackLines,
                      WindowsMarkers)

Windows_extract_examples(help_text) ==
  ExamplesScan(str_split(help_text, "\n"), FALSE, WindowsMarkers)

(***************************************************************************)
(* The platform hooks of BaseParser and the assembly of a CommandSpec.     *)
(***************************************************************************)
Platforms == {"posix", "windows"}

_is_option_line(platform, line) ==
  IF platform = "posix" THEN Posix_is_option_line(line)
  ELSE Windows_is_option_line(line)

_parse_option_line(platform, line) ==
  IF platform = "posix" THEN Posix_parse_option_line(line)
  ELSE Windows_parse_option_line(line)

\* the loop of _extract_options over the lines of the help text
RECURSIVE LinesOptions(_, _)
LinesOptions(platform, lines) ==
  IF lines = <<>> THEN <<>>
  ELSE LET line == str_strip(Head(lines))
       IN (IF _is_option_line(platform, line)
           THEN _parse_option_line(platform, line)
           ELSE <<>>)
          \o LinesOptions(platform, Tail(lines))

_extract_options(platform, help_text) ==
  LinesOptions(platform, str_split(help_text, "\n"))

_extract_description(platform, help_text) ==
  IF platform = "posix" THEN Posix_extract_description(help_text)
  ELSE Windows_extract_description(help_text)

_extract_examples(platform, help_text) ==
  IF platform = "posix" THEN Posix_extract_examples(help_text)
  ELSE Windows_extract_examples(help_text)

CommandSpec(name, usage, options, positional_args, description, examples) ==
  [name |-> name, usage |-> usage, options |-> options,
   positional_args |-> positional_args, description |-> description,
   examples |-> examples]

\* PosixParser._parse_help_text and WindowsParser._parse_help_text
_parse_help_text(platform, command_name, help_text) ==
  LET usage == _extract_usage(help_text)
  IN CommandSpec(command_name, usage,
                 _extract_options(platform, help_text),
                 _extract_positional_args(usage),
                 _extract_description(platform, help_text),
                 _extract_examples(platform, help_text))

(***************************************************************************)
(* The help-text acquirer: BaseParser._get_help_text and the platform's    *)
(* _try_alternative_help.  subprocess.run is the environment: each call    *)
(* either completes with an exit code and a stdout, times out, or raises.  *)
(***************************************************************************)
\* the length the stripped stdout of the primary invocation must exceed
MinHelpLength == 20

\* HasMeaningfulContent that measures the stdout before stripping it
Mut_HasMeaningfulContent(stdout) ==
  str_strip(stdout) # <<>> /\ Len(stdout) > MinHelpLength

\* result.stdout.strip() and len(result.stdout.strip()) > 20
HasMeaningfulContent(stdout) ==
  str_strip(stdout) # <<>> /\ Len(str_strip(stdout)) > MinHelpLength

NoHelpAvailable(command_name) == <<"N","o"," ","h","e","l","p"," ","a","v","a","i","l","a","b","l","e"," ","f","o","r"," ">> \o command_name
\* HelpTimedOut without the except clause for TimeoutExpired: the timeout
\* is reported by the clause for Exception
Mut_HelpTimedOut(command_name) ==
  <<"F","a","i","l","e","d"," ","t","o"," ","g","e","t"," ","h","e","l","p"," ","f","o","r"," ">> \o command_name \o <<":"," ","t","i","m","e","d"," ","o","u","t">>

HelpTimedOut(command_name) == <<"H","e","l","p"," ","c","o","m","m","a","n","d"," ","t","i","m","e","d"," ","o","u","t"," ","f","o","r"," ">> \o command_name
FailedToGetHelp(command_name, message) ==
  <<"F","a","i","l","e","d"," ","t","o"," ","g","e","t"," ","h","e","l","p"," ","f","o","r"," ">> \o command_name \o <<":"," ">> \o message

_get_help_command(platform, command_name) ==
  IF platform = "posix" THEN <<command_name, <<"-","-","h","e","l","p">>>>
  ELSE <<command_name, <<"/","?">>>>
ManCommand(command_name) == <<<<"m","a","n">>, command_name>>
DashHCommand(command_name) == <<command_name, <<"-","h">>>>
SlashHelpCommand(command_name) == <<command_name, <<"/","h","e","l","p">>>>

\* the outcomes of one subprocess.run
Completed(returncode, stdout) ==
  [kind |-> "completed", returncode |-> returncode, stdout |-> stdout,
   message |-> <<>>]
TimeoutExpired ==
  [kind |-> "timeout", returncode |-> 0, stdout |-> <<>>, message |-> <<>>]
Raised(message) ==
  [kind |-> "exception", returncode |-> 0, stdout |-> <<>>, message |-> message]

(***************************************************************************)
(* CommandWrapper (wrapper.py).                                            *)
(***************************************************************************)
\* key.lstrip('-/')
str_lstrip(s, chars) ==
  LET kept == {i \in 1..Len(s) : s[i] \notin chars}
  IN IF kept = {} THEN <<>>
     ELSE SubSeq(s, CHOOSE i \in kept : \A j \in kept : i <= j, Len(s))

\* s.replace(old, new) for one-character strings
str_replace(s, old, new) ==
  [i \in 1..Len(s) |-> IF s[i] = old THEN new ELSE s[i]]

\* s.isidentifier(), on ASCII text
str_isidentifier(s) ==
  /\ Len(s) > 0
  /\ s[1] \in LetterSet \cup {"_"}
  /\ \A i \in 1..Len(s) : s[i] \in WordChars

\* CommandWrapper._normalize_kwargs_key
_normalize_kwargs_key(key) ==
  LET stripped == str_lstrip(key, {"-", "/"})
      named == IF stripped = <<>> THEN <<"e","m","p","t","y">> ELSE stripped
      underscored == str_replace(named, "-", "_")
      dest == IF underscored = <<"?">> THEN <<"q","u","e","s","t","i","o","n">>
              ELSE IF str_startswith(underscored, <<"?">>)
                   THEN <<"q","u","e","s","t","i","o","n","_">> \o Slice(underscored, 2, Len(underscored))
                   ELSE underscored
  IN IF str_isidentifier(dest) THEN dest
     ELSE LET cleaned == [i \in 1..Len(dest) |->
                            IF dest[i] \in WordChars THEN dest[i] ELSE "_"]
          IN IF cleaned # <<>> /\ cleaned[1] \in DigitChars
             THEN <<"_">> \o cleaned
             ELSE cleaned

\* the first option of the list that satisfies Match, as zero or one option
FirstOption(options, Match(_)) ==
  LET found == {i \in 1..Len(options) : Match(options[i])}
  IN IF found = {} THEN <<>>
     ELSE <<options[CHOOSE i \in found : \A j \in found : i <= j]>>

Mut_find_option_by_dest(options, dest) ==
  LET Match(o) == _normalize_kwargs_key(o.flag) = dest
      found == {i \in 1..Len(options) : Match(options[i])}
  IN IF found = {} THEN <<>>
     ELSE <<options[CHOOSE i \in found : \A j \in found : i >= j]>>

\* CommandWrapper._find_option_by_dest
_find_option_by_dest(options, dest) ==
  LET Match(o) == _normalize_kwargs_key(o.flag) = dest
  IN FirstOption(options, Match)

\* run: the option a keyword selects, by normalized name and then by flag
SelectedOption(options, key) ==
  LET ExactFlag(o) == o.flag = key
  IN IF _find_option_by_dest(options, key) # <<>>
     THEN _find_option_by_dest(options, key)
     ELSE FirstOption(options, ExactFlag)

\* OptionSpec.is_boolean
is_boolean(o) == ~o.takes_value

\* a keyword's value: bool(value), value is None and str(value)
PyValue(truthy, is_none, text) ==
  [truthy |-> truthy, is_none |-> is_none, str |-> text]

\* run: what one keyword adds to the command line
KeywordArgs(options, key, value) ==
  LET selected == SelectedOption(options, key)
  IN IF selected = <<>> THEN <<>>
     ELSE IF is_boolean(selected[1]) /\ value.truthy
          THEN <<selected[1].flag>>
          ELSE IF ~is_boolean(selected[1]) /\ ~value.is_none
               THEN <<selected[1].flag, value.str>>
               ELSE <<>>

\* run: the loop over kwargs.items(), in the order of the call
RECURSIVE KwargsArgs(_, _)
KwargsArgs(options, kwargs) ==
  IF kwargs = <<>> THEN <<>>
  ELSE KeywordArgs(options, kwargs[1].key, kwargs[1].value)
         \o KwargsArgs(options, Tail(kwargs))

\* run: the loop over spec.positional_args
PositionalArgs(positional_args, args) ==
  [i \in 1..Min(Len(positional_args), Len(args)) |-> args[i]]

\* run: the command line handed to subprocess.run
CmdArgs(command_name, spec, args, kwargs) ==
  <<command_name>> \o KwargsArgs(spec.options, kwargs)
    \o PositionalArgs(spec.positional_args, args)

\* the timeout of a CommandWrapper, in seconds
DefaultTimeout == 30

\* str(n) of a natural number
RECURSIVE int_str(_)
int_str(n) ==
  LET digits == <<"0","1","2","3","4","5","6","7","8","9">>
  IN IF n < 10 THEN <<digits[n + 1]>>
     ELSE int_str(n \div 10) \o <<digits[(n % 10) + 1]>>

\* ExecutionResult, without the elapsed time
ExecutionResult(command, stdout, stderr, return_code) ==
  [command |-> command, stdout |-> stdout, stderr |-> stderr,
   return_code |-> return_code]

\* ExecutionResult.success
success(r) == r.return_code = 0

\* the subprocess.run of CommandWrapper.run returning
CompletedProcess(returncode, stdout, stderr) ==
  [kind |-> "completed", returncode |-> returncode, stdout |-> stdout,
   stderr |-> stderr]

Mut_Executed(cmd_args, timeout, outcome) ==
  LET command == str_join(cmd_args, <<" ">>)
  IN IF outcome.kind = "completed"
     THEN ExecutionResult(command, outcome.stdout, outcome.stderr,
                          outcome.returncode)
     ELSE ExecutionResult(command, <<>>,
                          <<"C","o","m","m","a","n","d"," ","e","x","e","c","u","t","i","o","n"," ","f","a","i","l","e","d",":"," ">> \o outcome.message, -1)

\* run: the try statement around subprocess.run
Executed(cmd_args, timeout, outcome) ==
  LET command == str_join(cmd_args, <<" ">>)
  IN IF outcome.kind = "completed"
     THEN ExecutionResult(command, outcome.stdout, outcome.stderr,
                          outcome.returncode)
     ELSE IF outcome.kind = "timeout"
          THEN ExecutionResult(command, <<>>,
                               <<"C","o","m","m","a","n","d"," ","t","i","m","e","d"," ","o","u","t"," ","a","f","t","e","r"," ">> \o int_str(timeout)
                                 \o <<" ","s","e","c","o","n","d","s">>, -1)
          ELSE ExecutionResult(command, <<>>,
                               <<"C","o","m","m","a","n","d"," ","e","x","e","c","u","t","i","o","n"," ","f","a","i","l","e","d",":"," ">> \o outcome.message, -1)

(***************************************************************************)
(* FileWriter (generator/file_writer.py).                                  *)
(***************************************************************************)
\* WrapperBuilder.generate_mcp_plugin_code: the source of a plugin that
\* defines setup_execute_command, execute_command and main for the command
generate_mcp_plugin_code(spec) ==
  str_join(
    <<<<"#"," ">> \o spec.name \o <<" ","P","l","u","g","i","n">>,
      <<"d","e","f"," ","s","e","t","u","p","_","e","x","e","c","u","t","e","_","c","o","m","m","a","n","d","(","s","u","b","p","a","r","s","e","r","s",")",":">>,
      <<" "," "," "," ","p","a","r","s","e","r"," ","="," ","s","u","b","p","a","r","s","e","r","s",".","a","d","d","_","p","a","r","s","e","r","(","\"">> \o spec.name \o <<"\"",")">>,
      <<"d","e","f"," ","e","x","e","c","u","t","e","_","c","o","m","m","a","n","d","(","a","r","g","s",")",":">>,
      <<" "," "," "," ","c","m","d","_","a","r","g","s"," ","="," ","[","\"">> \o spec.name \o <<"\"","]">>>>
    \o [i \in 1..Len(spec.options) |->
          <<" "," "," "," ","c","m","d","_","a","r","g","s",".","a","p","p","e","n","d","(","\"">> \o spec.options[i].flag \o <<"\"",")">>]
    \o <<<<"d","e","f"," ","m","a","i","n","(",")",":">>,
         <<" "," "," "," ","e","x","e","c","u","t","e","_","c","o","m","m","a","n","d","(","a","r","g","s",")">>,
         <<"i","f"," ","_","_","n","a","m","e","_","_"," ","=","="," ","\"","_","_","m","a","i","n","_","_","\"",":">>,
         <<" "," "," "," ","m","a","i","n","(",")">>,
         <<>>>>,
    <<"\n">>)

BeginMarker == <<"#"," ","U","C","W","-","B","E","G","I","N",":">>
EndMarker == <<"#"," ","U","C","W","-","E","N","D",":">>
\* "# UCW-BEGIN:" not in content and "# UCW-END:" not in content
NoMarkers(content) ==
  ~str_contains(content, BeginMarker) /\ ~str_contains(content, EndMarker)

\* _extract_wrapper_code: the loop over the lines
RECURSIVE CommandLines(_, _)
CommandLines(lines, in_command_section) ==
  IF lines = <<>> THEN <<>>
  ELSE LET stripped == str_strip(lines[1])
           now_in == \/ in_command_section
                     \/ str_startswith(stripped, <<"d","e","f"," ","s","e","t","u","p","_","e","x","e","c","u","t","e","_","c","o","m","m","a","n","d">>)
                     \/ str_startswith(stripped, <<"d","e","f"," ","e","x","e","c","u","t","e","_","c","o","m","m","a","n","d">>)
       IN IF ~now_in THEN CommandLines(Tail(lines), FALSE)
          ELSE IF str_startswith(stripped, <<"i","f"," ","_","_","n","a","m","e","_","_">>) THEN <<lines[1]>>
          ELSE <<lines[1]>> \o CommandLines(Tail(lines), TRUE)

\* FileWriter._extract_wrapper_code
_extract_wrapper_code(plugin_code, command_name) ==
  str_join(CommandLines(str_split(plugin_code, "\n"), FALSE), <<"\n">>)

\* FileWriter._update_wrapper_section
_update_wrapper_section(content, command_name, new_code) ==
  LET begin_tag == <<"#"," ","U","C","W","-","B","E","G","I","N",":"," ">> \o command_name
      end_tag == <<"#"," ","U","C","W","-","E","N","D",":"," ">> \o command_name
      section == begin_tag \o <<"\n">> \o new_code \o <<"\n">> \o end_tag
                   \o <<"\n">>
  IN IF NoMarkers(content)
     THEN begin_tag \o <<"\n">> \o content \o <<"\n">> \o end_tag \o <<"\n">>
     ELSE IF str_contains(content, begin_tag) /\ str_contains(content, end_tag)
          THEN Slice(content, 1, str_find(content, begin_tag) - 1)
                 \o section
                 \o Slice(content, str_find(content, end_tag) + Len(end_tag),
                          Len(content))
          ELSE content \o <<"\n", "\n">> \o section

\* FileWriter._write_new_file: what it writes
_write_new_file(spec) == generate_mcp_plugin_code(spec)

Mut_update_existing_file(spec, content) ==
  _update_wrapper_section(
    content, spec.name,
    _extract_wrapper_code(generate_mcp_plugin_code(spec), spec.name))

\* FileWriter._update_existing_file: what it writes over content
_update_existing_file(spec, content) ==
  IF NoMarkers(content) THEN generate_mcp_plugin_code(spec)
  ELSE _update_wrapper_section(
         content, spec.name,
         _extract_wrapper_code(generate_mcp_plugin_code(spec), spec.name))

\* a path at which no file exists
Missing == <<"Missing">>

\* FileWriter.write_wrapper: the content of the file after the call
WrittenBy(spec, content, update) ==
  IF update /\ content # Missing THEN _update_existing_file(spec, content)
  ELSE _write_new_file(spec)

(***************************************************************************)
(* The inputs of the model.                                                *)
(***************************************************************************)
\* "Usage: cp [OPTION]... [-T] SOURCE DEST", "", "  -r  recursive" and
\* "  -v  verbose": the lines of a small help text
CpUsageLine == <<"U","s","a","g","e",":"," ","c","p"," ","[","O","P","T","I","O","N","]",".",".","."," ","[","-","T","]"," ","S","O","U","R","C","E"," ","D","E","S","T">>
RecursiveLine == <<" "," ","-","r"," "," ","r","e","c","u","r","s","i","v","e">>
VerboseLine == <<" "," ","-","v"," "," ","v","e","r","b","o","s","e">>
CpHelp == str_join(<<CpUsageLine, <<>>, RecursiveLine, VerboseLine>>, <<"\n">>)
\* outputs whose stripped length is 20 and 21, with whitespace around them
Help20 == <<" "," ","U","s","a","g","e",":"," ","a","b","c"," ","[","-","v","]"," ","F","I","L","E","\n">>
Help21 == <<" ","U","s","a","g","e",":"," ","a","b","c","d"," ","[","-","v","]"," ","F","I","L","E","\n">>

\* the command names given to parse_command: an installed command, one that
\* is not installed, a blank one and one with a line break in it
CommandNames == {<<"l","s">>, <<"m","y","c","o","m","m","a","n","d">>, <<" ">>, <<"x","\n","-","v">>}
\* the arguments of parse_command: None, a non-string, and strings
StrArg(value) == [type |-> "str", value |-> value]
NoneArg == [type |-> "NoneType", value |-> <<>>]
IntArg == [type |-> "int", value |-> <<>>]
Arguments == {NoneArg, IntArg, StrArg(<<>>)} \cup {StrArg(n) : n \in CommandNames}

\* what the primary invocation can print, and what an alternative can
Stdouts == {<<>>, <<"o","k">>, Help20, Help21, CpHelp}
AltStdouts == {<<>>, Help20, Help21}
Messages == {<<"U","n","e","x","p","e","c","t","e","d"," ","e","r","r","o","r">>}
Outcomes(stdouts) ==
  {Completed(rc, out) : rc \in {0, 1}, out \in stdouts}
    \cup {TimeoutExpired} \cup {Raised(m) : m \in Messages}

(***************************************************************************)
(* The state: one parser, and one call of parse_command on it.             *)
(***************************************************************************)
VARIABLES
  platform,      \* the parser's class: "posix" or "windows"
  pc,            \* where the call is
  command_name,  \* the command name of the call
  calls,         \* the subprocess.run calls so far: [cmd, outcome]
  help_text,     \* what _get_help_text returned
  result,        \* the CommandSpec returned, as a sequence of zero or one
  raised,        \* the exception raised to the caller, "none" if none
  usage,         \* the argument of _extract_positional_args
  args,          \* the list _extract_positional_args returned
  rendered,      \* the OptionSpec print_human_readable renders, zero or one
  line,          \* the argument of _parse_option_line, or the rendered line
  option,        \* the OptionSpec parsed from the line, as a sequence of zero or one
  hint_text,     \* the argument of a type inference
  hint,          \* the call site and the type hint inferred, <<>> before
  platform_name, \* the platform_name given to UniversalCommandWrapper
  system,        \* platform.system() of the host, in lower case
  timeout_args,  \* the timeout_help and timeout_exec given to the constructor
  environ,       \* os.environ: UCW_TIMEOUT_HELP and UCW_TIMEOUT_EXEC
  timeout_help,  \* self.timeout_help, as a sequence of zero or one integer
  timeout_exec,  \* self.timeout_exec, as a sequence of zero or one integer
  parser_timeout, \* the timeout the parser was created with, zero or one integer
  spec,          \* the CommandSpec a CommandWrapper wraps
  run_args,      \* the positional arguments of the last call of run
  kwargs,        \* its keywords, as [key, value] in the order of the call
  cmd_args,      \* the command line it handed to subprocess.run
  execution,     \* the ExecutionResult it returned, as a sequence of zero or one
  initial_content, \* the file at the output path before the first write_wrapper
  file_content,  \* the file at the output path, Missing if there is none
  writes         \* the calls of write_wrapper so far: [spec, update]

parserVars == <<platform, pc, command_name, calls, help_text, result, raised,
                usage, args>>
optionVars == <<rendered, line, option>>
inferVars == <<hint_text, hint>>
\* the parser's variables but pc
parserData == <<platform, command_name, calls, help_text, result, raised,
                usage, args>>
\* the variables the parser's calls leave alone
wrapperVars == <<platform_name, system, timeout_args, environ, timeout_help,
                 timeout_exec, parser_timeout>>
runVars == <<spec, run_args, kwargs, cmd_args, execution>>
fileVars == <<initial_content, file_content, writes>>
\* the variables the parser's calls leave alone
extVars == <<optionVars, inferVars, wrapperVars, runVars, fileVars>>
\* the variables the calls of one component leave alone
exceptOption == <<parserData, inferVars, wrapperVars, runVars, fileVars>>
exceptInfer == <<parserData, optionVars, wrapperVars, runVars, fileVars>>
vars == <<parserVars, extVars>>

\* no call of _parse_option_line under way
IdleOption == rendered = <<>> /\ line = None /\ option = <<>>
\* no type inference under way
IdleInfer == hint_text = None /\ hint = <<>>
\* the UniversalCommandWrapper is constructed
IdleWrapper ==
  /\ platform_name = None /\ system = None /\ timeout_args = <<>>
  /\ environ = <<>> /\ timeout_help = <<>> /\ timeout_exec = <<>>
  /\ parser_timeout = <<>>
\* no CommandWrapper is built
IdleRun ==
  /\ spec = None /\ run_args = <<>> /\ kwargs = <<>> /\ cmd_args = <<>>
  /\ execution = <<>>
\* no FileWriter has written
IdleFile == initial_content = Missing /\ file_content = Missing /\ writes = <<>>
IdleExt == IdleOption /\ IdleInfer /\ IdleWrapper /\ IdleRun /\ IdleFile
\* no call of the parser under way
IdleParser ==
  /\ command_name = None /\ calls = <<>> /\ help_text = None
  /\ result = <<>> /\ raised = "none" /\ usage = None /\ args = <<>>

Init ==
  /\ platform \in Platforms
  /\ pc = "idle"
  /\ command_name = None
  /\ calls = <<>>
  /\ help_text = None
  /\ result = <<>>
  /\ raised = "none"
  /\ usage = None
  /\ args = <<>>
  /\ IdleExt

\* parse_command up to the call of _get_help_text
parse_command(arg) ==
  /\ pc = "idle"
  /\ IF arg.type = "NoneType" \/ arg.type # "str"
     THEN /\ raised' = "TypeError"
          /\ pc' = "raised"
          /\ UNCHANGED <<command_name, result>>
     ELSE IF arg.value = <<>>
     THEN /\ result' = <<CommandSpec(<<>>, <<>>, <<>>, <<>>, <<>>, <<>>)>>
          /\ pc' = "done"
          /\ command_name' = arg.value
          /\ UNCHANGED raised
     ELSE /\ command_name' = arg.value
          /\ pc' = "primary"
          /\ UNCHANGED <<result, raised>>
  /\ UNCHANGED <<platform, calls, help_text, usage, args>>
  /\ UNCHANGED extVars

\* AfterPrimary that goes on to the alternatives after a timeout or an
\* exception
Mut_AfterPrimary(name, outcome) ==
  IF outcome.kind = "completed" /\ HasMeaningfulContent(outcome.stdout)
  THEN outcome.stdout
  ELSE None

\* what _get_help_text does with the outcome of the primary invocation: the
\* text it returns, or None when it goes on to _try_alternative_help
AfterPrimary(name, outcome) ==
  IF outcome.kind = "timeout" THEN HelpTimedOut(name)
  ELSE IF outcome.kind = "exception" THEN FailedToGetHelp(name, outcome.message)
  ELSE IF HasMeaningfulContent(outcome.stdout) THEN outcome.stdout
  ELSE None

\* alt_help if it is neither None nor the sentinel, else the sentinel
AfterAlternative(name, alt_help) ==
  IF alt_help # None /\ alt_help # NoHelpAvailable(name) THEN alt_help
  ELSE NoHelpAvailable(name)

\* PosixAttempt that does not look at the exit code
Mut_PosixAttempt(outcome) ==
  IF outcome.kind = "completed" THEN outcome.stdout ELSE None

\* what one attempt of PosixParser._try_alternative_help yields: the stdout
\* when the command exits with 0, None otherwise (every exception is passed)
PosixAttempt(outcome) ==
  IF outcome.kind = "completed" /\ outcome.returncode = 0 THEN outcome.stdout
  ELSE None

\* what WindowsParser._try_alternative_help returns
WindowsAlternative(name, outcome) ==
  IF outcome.kind = "completed" /\ HasMeaningfulContent(outcome.stdout)
  THEN outcome.stdout
  ELSE NoHelpAvailable(name)

Call(cmd, outcome) == [cmd |-> cmd, outcome |-> outcome]

\* _get_help_text: the primary invocation
RunPrimary(outcome) ==
  /\ pc = "primary"
  /\ calls' = Append(calls, Call(_get_help_command(platform, command_name),
                                 outcome))
  /\ IF AfterPrimary(command_name, outcome) # None
     THEN /\ help_text' = AfterPrimary(command_name, outcome)
          /\ pc' = "parse"
     ELSE /\ pc' = IF platform = "posix" THEN "man" ELSE "slash_help"
          /\ UNCHANGED help_text
  /\ UNCHANGED <<platform, command_name, result, raised, usage, args>>
  /\ UNCHANGED extVars

\* PosixParser._try_alternative_help: man <command>
RunMan(outcome) ==
  /\ pc = "man"
  /\ calls' = Append(calls, Call(ManCommand(command_name), outcome))
  /\ IF PosixAttempt(outcome) # None
     THEN /\ help_text' = AfterAlternative(command_name, PosixAttempt(outcome))
          /\ pc' = "parse"
     ELSE /\ pc' = "dash_h"
          /\ UNCHANGED help_text
  /\ UNCHANGED <<platform, command_name, result, raised, usage, args>>
  /\ UNCHANGED extVars

\* PosixParser._try_alternative_help: <command> -h
RunDashH(outcome) ==
  /\ pc = "dash_h"
  /\ calls' = Append(calls, Call(DashHCommand(command_name), outcome))
  /\ help_text' = AfterAlternative(command_name, PosixAttempt(outcome))
  /\ pc' = "parse"
  /\ UNCHANGED <<platform, command_name, result, raised, usage, args>>
  /\ UNCHANGED extVars

\* WindowsParser._try_alternative_help: <command> /help
RunSlashHelp(outcome) ==
  /\ pc = "slash_help"
  /\ calls' = Append(calls, Call(SlashHelpCommand(command_name), outcome))
  /\ help_text' = AfterAlternative(command_name,
                                   WindowsAlternative(command_name, outcome))
  /\ pc' = "parse"
  /\ UNCHANGED <<platform, command_name, result, raised, usage, args>>
  /\ UNCHANGED extVars

\* parse_command: return self._parse_help_text(command_name, help_text)
ParseHelpText ==
  /\ pc = "parse"
  /\ result' = <<_parse_help_text(platform, command_name, help_text)>>
  /\ pc' = "done"
  /\ UNCHANGED <<platform, command_name, calls, help_text, raised, usage, args>>
  /\ UNCHANGED extVars

Next ==
  \/ \E arg \in Arguments : parse_command(arg)
  \/ \E outcome \in Outcomes(Stdouts) : RunPrimary(outcome)
  \/ \E outcome \in Outcomes(AltStdouts) : RunMan(outcome)
  \/ \E outcome \in Outcomes(AltStdouts) : RunDashH(outcome)
  \/ \E outcome \in Outcomes(AltStdouts) : RunSlashHelp(outcome)
  \/ ParseHelpText

Spec == Init /\ [][Next]_vars
(***************************************************************************)
(* _parse_help_text as a function of the help text: the help texts are the *)
(* texts of at most MaxLines lines drawn from HelpLines.                   *)
(***************************************************************************)
MaxLines == 4
HelpLines == {CpUsageLine, <<>>, RecursiveLine, VerboseLine}
TextsOf(lines, max) ==
  {str_join(ls, <<"\n">>) : ls \in UNION {[1..n -> lines] : n \in 0..max}}
\* headers of a usage section, a section name and a line of prose
HeaderLines == {<<"U","S","A","G","E">>, <<"U","s","a","g","e",":">>, <<"u","s","a","g","e",":"," ","f","f","m","p","e","g"," ","[","o","p","t","i","o","n","s","]">>, <<"O","P","T","I","O","N","S">>, <<"C","o","p","y"," ","f","i","l","e","s">>, <<>>}
\* a line of prose after up to MaxBlank empty lines
MaxBlank == 10
PaddedTexts ==
  {str_join([i \in 1..(n + 1) |-> IF i <= n THEN <<>> ELSE <<"C","o","p","y"," ","f","i","l","e","s">>], <<"\n">>) :
     n \in 0..MaxBlank}
HelpTexts ==
  TextsOf(HelpLines, MaxLines) \cup TextsOf(HeaderLines, MaxLines)
    \cup PaddedTexts

InitParse ==
  /\ platform \in Platforms
  /\ pc = "parse"
  /\ command_name = <<"c","p">>
  /\ calls = <<>>
  /\ help_text \in HelpTexts
  /\ result = <<>>
  /\ raised = "none"
  /\ usage = None
  /\ args = <<>>
  /\ IdleExt

SpecParse == InitParse /\ [][ParseHelpText]_vars

(***************************************************************************)
(* _extract_positional_args as a function of the usage line: a usage line  *)
(* is a head (nothing, a command name, or a command name with option       *)
(* placeholders) followed by at most MaxTokens tokens drawn from           *)
(* UsageTokens, separated by one of TokenSeparators.                       *)
(***************************************************************************)
MaxTokens == 3
UsageHeads == {<<>>, <<<<"c","p">>>>, <<<<"c","p">>, <<"[","O","P","T","I","O","N","]",".",".",".">>, <<"[","-","T","]">>>>}
UsageTokens == {<<"S","O","U","R","C","E">>, <<"D","E","S","T">>, <<"<","c","o","m","m","a","n","d",">">>, <<"<","C","o","m","m","a","n","d",">">>,
                <<"<","s","u","b","c","o","m","m","a","n","d",">">>, <<"[","f","l","a","g","s","]">>, <<"[","<","a","r","g","s",">","]">>}
TokenSeparators == {<<" ">>, <<"\t"," ">>}
\* tokens in square brackets: options, and an optional positional
BracketTokens == {<<"[","-","v","]">>, <<"[","-","-","n","o","-","p","a","g","e","r","]">>, <<"[","F","I","L","E","]">>}
TokenSeqs(tokens, max) == UNION {[1..n -> tokens] : n \in 0..max}
\* tokens with "...", with and without brackets
VariadicTokens == {<<"<","a","r","g","s",">",".",".",".">>, <<"[","<","a","r","g","s",">",".",".",".","]">>, <<"F","I","L","E",".",".",".">>, <<"[","F","I","L","E",".",".",".","]">>, <<"[","F","I","L","E","]",".",".",".">>,
                   <<"[","<","c","o","m","m","a","n","d",">","]">>, <<"<","f","i","l","e",".",".",".",">",".",".",".">>}
Usages ==
  {str_join(head \o ts, sep) :
     head \in UsageHeads,
     ts \in TokenSeqs(UsageTokens, MaxTokens)
             \cup TokenSeqs(BracketTokens, MaxTokens)
             \cup TokenSeqs(VariadicTokens, MaxTokens),
     sep \in TokenSeparators}

InitArgs ==
  /\ platform = "posix"
  /\ pc = "args"
  /\ command_name = None
  /\ calls = <<>>
  /\ help_text = None
  /\ result = <<>>
  /\ raised = "none"
  /\ usage \in Usages
  /\ args = <<>>
  /\ IdleExt

\* one call of _extract_positional_args
ExtractPositionalArgs ==
  /\ pc = "args"
  /\ args' = _extract_positional_args(usage)
  /\ pc' = "done"
  /\ UNCHANGED <<platform, command_name, calls, help_text, result, raised, usage>>
  /\ UNCHANGED extVars

SpecArgs == InitArgs /\ [][ExtractPositionalArgs]_vars
(***************************************************************************)
(* _parse_option_line as a function of the line, and the way back from an  *)
(* OptionSpec: the line print_human_readable prints for it, read again by  *)
(* _extract_options.                                                       *)
(***************************************************************************)
\* print_human_readable: f"  {flag}{value_indicator}: {description or 'No description'}"
render_option(o) ==
  LET value_indicator == IF o.takes_value THEN <<" ","<","v","a","l","u","e",">">> ELSE <<>>
  IN <<" "," ">> \o o.flag \o value_indicator \o <<":"," ">>
       \o (IF o.description = <<>> \/ o.description = None
           THEN <<"N","o"," ","d","e","s","c","r","i","p","t","i","o","n">> ELSE o.description)

Indents == {<<>>, <<" "," "," "," "," "," "," ">>}
FlagParts ==
  {<<"-","c">>, <<"-","c"," ","<","c","o","d","e","c",">">>, <<"-","c","[",":","<","s","t","r","e","a","m","_","s","p","e","c",">","]"," ","<","c","o","d","e","c",">">>,
   <<"-","w",","," ","-","-","w","i","d","t","h">>, <<"-","w",","," ","-","-","w","i","d","t","h","=","C","O","L","S">>, <<"-","-","w","i","d","t","h">>, <<"-","-","w","i","d","t","h","=","C","O","L","S">>,
   <<"/","A">>, <<"/","A","[","[",":","]","a","t","t","r","i","b","u","t","e","s","]">>}
Descriptions == {<<>>, <<"s","e","l","e","c","t"," ","e","n","c","o","d","e","r","/","d","e","c","o","d","e","r">>, <<"s","e","t"," ","t","h","e"," ","S","I","Z","E">>}
\* the Windows lines "/name description" and "/name:value description"
WinNames == {<<"o","p","t","i","o","n">>, <<"Q">>}
WinValues == {<<"v","a","l","u","e">>, <<"f","g">>}
WinDescriptions == {<<"D","e","s","c","r","i","p","t","i","o","n"," ","t","e","x","t">>, <<"Q","u","i","e","t"," ","m","o","d","e",":"," ","n","o"," ","p","r","o","m","p","t","s">>, <<"S","p","e","c","i","f","y"," ","t","h","e"," ","v","a","l","u","e">>}
WinSimpleLine(indent, name, d) == indent \o <<"/">> \o name \o <<" "," "," "," ">> \o d
WinValueLine(indent, name, value, d) ==
  indent \o <<"/">> \o name \o <<":">> \o value \o <<" "," "," "," ">> \o d
WinOptionLines ==
  {WinSimpleLine(indent, name, d) :
     indent \in Indents, name \in WinNames, d \in WinDescriptions}
  \cup {WinValueLine(indent, nv[1], nv[2], d) :
          indent \in Indents, nv \in WinNames \X WinValues, d \in WinDescriptions}
OptionLines ==
  {indent \o flags \o (IF d = <<>> THEN <<>> ELSE <<" "," ">> \o d) :
     indent \in Indents, flags \in FlagParts, d \in Descriptions}
  \cup WinOptionLines
OptionSpecs ==
  {OptionSpec(flag, takes_value, d, _infer_type_hint(d)) :
     flag \in {<<"-","c">>, <<"-","-","w","i","d","t","h">>, <<"/","A">>}, takes_value \in BOOLEAN,
     d \in Descriptions}

InitOption ==
  /\ platform \in Platforms
  /\ \/ pc = "option" /\ line \in OptionLines /\ rendered = <<>>
     \/ pc = "render" /\ line = None /\ rendered \in {<<o>> : o \in OptionSpecs}
  /\ option = <<>>
  /\ IdleParser /\ IdleInfer /\ IdleWrapper /\ IdleRun /\ IdleFile

\* one call of _parse_option_line
ParseOptionLine ==
  /\ pc = "option"
  /\ option' = _parse_option_line(platform, line)
  /\ pc' = "done"
  /\ UNCHANGED <<exceptOption, rendered, line>>

\* print_human_readable prints the line of one option
RenderOption ==
  /\ pc = "render"
  /\ line' = render_option(rendered[1])
  /\ pc' = "extract"
  /\ UNCHANGED <<exceptOption, rendered, option>>

\* _extract_options reads the printed line
ExtractOptions ==
  /\ pc = "extract"
  /\ option' = _extract_options(platform, line)
  /\ pc' = "done"
  /\ UNCHANGED <<exceptOption, rendered, line>>

NextOption == ParseOptionLine \/ RenderOption \/ ExtractOptions
SpecOption == InitOption /\ [][NextOption]_vars

(***************************************************************************)
(* The two type inferences as functions of their text: the texts are the   *)
(* texts of at most MaxWords words drawn from Words.                       *)
(***************************************************************************)
MaxWords == 2
Words == {<<"f","i","l","e">>, <<"T","A","R","G","E","T">>, <<"n","a","m","e">>, <<"C","o","u","n","t">>, <<"p","o","r","t">>, <<"v","e","r","b","o","s","e">>,
          <<"d","a","t","a">>}
Texts == {str_join(ws, <<" ">>) : ws \in TokenSeqs(Words, MaxWords)}

InitInfer ==
  /\ platform \in Platforms
  /\ pc = "infer"
  /\ hint_text \in Texts
  /\ hint = <<>>
  /\ IdleParser /\ IdleOption /\ IdleWrapper /\ IdleRun /\ IdleFile

\* _extract_positional_args: type_hint = self._infer_positional_type(part)
InferPositionalType ==
  /\ pc = "infer"
  /\ hint' = <<"name", _infer_positional_type(hint_text)>>
  /\ pc' = "done"
  /\ UNCHANGED <<exceptInfer, hint_text>>

\* _parse_option_line: type_hint = self._infer_type_hint(description)
InferTypeHint ==
  /\ pc = "infer"
  /\ hint' = <<"description", _infer_type_hint(hint_text)>>
  /\ pc' = "done"
  /\ UNCHANGED <<exceptInfer, hint_text>>

NextInfer == InferPositionalType \/ InferTypeHint
SpecInfer == InitInfer /\ [][NextInfer]_vars

(***************************************************************************)
(* The construction of a UniversalCommandWrapper and the first call of     *)
(* parse_command on its parser.                                            *)
(***************************************************************************)
PlatformNames ==
  {None, <<>>, <<"w","i","n","d","o","w","s">>, <<"p","o","s","i","x">>, <<"l","i","n","u","x">>, <<"a","u","t","o">>, <<"i","n","v","a","l","i","d">>,
   <<"L","i","n","u","x">>}
Systems == {<<"w","i","n","d","o","w","s">>, <<"l","i","n","u","x">>, <<"d","a","r","w","i","n">>, <<"f","r","e","e","b","s","d">>}
Unsupported == "ValueError: Unsupported platform"
Unknown == "ValueError: Unknown platform"

\* the platform detected, or the ValueError raised
_detect_platform(sys) ==
  IF sys = <<"w","i","n","d","o","w","s">> THEN "windows"
  ELSE IF sys \in {<<"l","i","n","u","x">>, <<"d","a","r","w","i","n">>} THEN "posix"
  ELSE Unsupported

\* self.platform after __init__ line 41, or the ValueError raised
SelfPlatform(name, sys) ==
  LET chosen == IF name = None \/ name = <<>>
                THEN _detect_platform(sys)
                ELSE IF name = <<"w","i","n","d","o","w","s">> THEN "windows"
                ELSE IF name = <<"p","o","s","i","x">> THEN "posix"
                ELSE IF name = <<"l","i","n","u","x">> THEN "linux"
                ELSE IF name = <<"a","u","t","o">> THEN "auto"
                ELSE "other"
  IN IF chosen = "linux" THEN "posix" ELSE chosen

\* the class of the parser created, or the ValueError raised
_create_parser(self_platform, sys) ==
  IF self_platform = "windows" THEN "windows"
  ELSE IF self_platform = "posix" THEN "posix"
  ELSE IF self_platform = "auto" THEN _detect_platform(sys)
  ELSE Unknown

\* int(s) of a string: <<n>>, or <<>> for a ValueError
RECURSIVE DigitsValue(_)
DigitsValue(digits) ==
  IF digits = <<>> THEN 0
  ELSE 10 * DigitsValue(SubSeq(digits, 1, Len(digits) - 1))
         + (CHOOSE d \in 0..9 : int_str(d) = <<digits[Len(digits)]>>)
py_int(s) ==
  LET t == str_strip(s)
      signed == t # <<>> /\ t[1] \in {"+", "-"}
      body == IF signed THEN Tail(t) ELSE t
      digits == SelectSeq(body, LAMBDA c : c # "_")
      valid == /\ body # <<>>
               /\ \A i \in 1..Len(body) : body[i] \in DigitChars \cup {"_"}
               /\ body[1] # "_" /\ body[Len(body)] # "_"
               /\ ~str_contains(body, <<"_", "_">>)
  IN IF ~valid THEN <<>>
     ELSE IF signed /\ t[1] = "-" THEN <<0 - DigitsValue(digits)>>
     ELSE <<DigitsValue(digits)>>

DefaultHelpTimeout == 10
DefaultExecTimeout == 30
\* an environment variable that is not set
Unset == <<"Unset">>
\* os.environ.get(name, default)
environ_get(value, default) == IF value = Unset THEN int_str(default) ELSE value
\* x or y, for an optional integer x
IntOr(x, y) == IF x # <<>> /\ x[1] # 0 THEN x ELSE y

\* __init__ lines 44-50: self.timeout_help and self.timeout_exec
Timeouts(given, env) ==
  LET help_env == py_int(environ_get(env.UCW_TIMEOUT_HELP, DefaultHelpTimeout))
      exec_env == py_int(environ_get(env.UCW_TIMEOUT_EXEC, DefaultExecTimeout))
      value_error ==
        \/ IntOr(given.timeout_help, <<>>) = <<>> /\ help_env = <<>>
        \/ IntOr(given.timeout_exec, <<>>) = <<>> /\ exec_env = <<>>
  IN IF value_error
     THEN [timeout_help |-> IntOr(given.timeout_help, <<DefaultHelpTimeout>>),
           timeout_exec |-> IntOr(given.timeout_exec, <<DefaultExecTimeout>>)]
     ELSE [timeout_help |-> IntOr(given.timeout_help, help_env),
           timeout_exec |-> IntOr(given.timeout_exec, exec_env)]

\* the timeouts given to the constructor: none or a number of seconds
TimeoutArgs == [timeout_help : {<<>>, <<25>>}, timeout_exec : {<<>>, <<55>>}]
\* the environment: a variable is not set, a number or not a number
Environs ==
  [UCW_TIMEOUT_HELP : {Unset, <<"1","5">>, <<"i","n","v","a","l","i","d">>},
   UCW_TIMEOUT_EXEC : {Unset, <<"4","5">>, <<"i","n","v","a","l","i","d">>}]

InitWrapper ==
  /\ platform = "none"
  /\ pc = "new"
  /\ platform_name = None
  /\ system = None
  /\ timeout_args = <<>> /\ environ = <<>> /\ timeout_help = <<>>
  /\ timeout_exec = <<>> /\ parser_timeout = <<>>
  /\ IdleParser /\ IdleOption /\ IdleInfer /\ IdleRun /\ IdleFile

\* UniversalCommandWrapper.__init__
UniversalCommandWrapper(name, sys, given, env) ==
  /\ pc = "new"
  /\ platform_name' = name
  /\ system' = sys
  /\ timeout_args' = given
  /\ environ' = env
  /\ LET self_platform == SelfPlatform(name, sys)
         parser == IF self_platform = Unsupported THEN Unsupported
                   ELSE _create_parser(self_platform, sys)
     IN /\ IF self_platform = Unsupported
           THEN UNCHANGED <<timeout_help, timeout_exec>>
           ELSE /\ timeout_help' = Timeouts(given, env).timeout_help
                /\ timeout_exec' = Timeouts(given, env).timeout_exec
        /\ IF parser \in Platforms
           THEN /\ platform' = parser
                /\ parser_timeout' = timeout_help'
                /\ pc' = "idle"
                /\ UNCHANGED raised
           ELSE /\ raised' = parser
                /\ pc' = "raised"
                /\ UNCHANGED <<platform, parser_timeout>>
  /\ UNCHANGED <<command_name, calls, help_text, result, usage, args,
                 optionVars, inferVars, runVars, fileVars>>

\* parse_command on the wrapper's parser
WrapperParseCommand(arg) ==
  /\ platform \in Platforms
  /\ parse_command(arg)

NextWrapper ==
  \/ \E name \in PlatformNames, sys \in Systems, given \in TimeoutArgs,
          env \in Environs :
       UniversalCommandWrapper(name, sys, given, env)
  \/ \E arg \in Arguments : WrapperParseCommand(arg)
SpecWrapper == InitWrapper /\ [][NextWrapper]_vars

(***************************************************************************)
(* One CommandWrapper and one call of run on it.                           *)
(***************************************************************************)
MaxOptions == 2
MaxPositional == 2
MaxArgs == 2

\* the options of the wrapped specifications; -help and --help share their
\* normalized name
RunOptions ==
  {OptionSpec(<<"-","1">>, FALSE, None, NoHint),
   OptionSpec(<<"-","h","e","l","p">>, FALSE, None, NoHint),
   OptionSpec(<<"-","-","h","e","l","p">>, FALSE, None, NoHint),
   OptionSpec(<<"-","-","n","o","-","p","a","g","e","r">>, FALSE, None, NoHint),
   OptionSpec(<<"-","-","o","u","t","p","u","t">>, TRUE, None, NoHint),
   OptionSpec(<<"/","?">>, FALSE, None, NoHint)}
DeclaredArgs ==
  <<PositionalArgSpec(<<"S","O","U","R","C","E">>, TRUE, FALSE, NoHint),
    PositionalArgSpec(<<"D","E","S","T">>, TRUE, FALSE, NoHint),
    PositionalArgSpec(<<"E","X","T","R","A">>, FALSE, FALSE, NoHint)>>
WrappedSpecs ==
  {CommandSpec(<<"e","c","h","o">>, <<>>, os, SubSeq(DeclaredArgs, 1, n), <<>>, <<>>) :
     os \in TokenSeqs(RunOptions, MaxOptions), n \in 0..MaxPositional}

\* the positional arguments of a call
SuppliedArgs == <<<<"h","e","l","l","o">>, <<"w","o","r","l","d">>, <<"a","g","a","i","n">>>>
RunArgs == {SubSeq(SuppliedArgs, 1, n) : n \in 0..MaxArgs}
\* the keywords of a call: none or one, by normalized name, by flag, or
\* naming no option
RunKeys == {<<"1">>, <<"_","1">>, <<"h","e","l","p">>, <<"-","-","h","e","l","p">>, <<"n","o","_","p","a","g","e","r">>, <<"o","u","t","p","u","t">>, <<"q","u","e","s","t","i","o","n">>, <<"/","?">>,
            <<"v","e","r","b","o","s","e">>}
\* True, False, None, 0 and "out.txt"
RunValues ==
  {PyValue(TRUE, FALSE, <<"T","r","u","e">>), PyValue(FALSE, FALSE, <<"F","a","l","s","e">>),
   PyValue(FALSE, TRUE, <<"N","o","n","e">>), PyValue(FALSE, FALSE, <<"0">>),
   PyValue(TRUE, FALSE, <<"o","u","t",".","t","x","t">>)}
RunKwargs ==
  {<<>>} \cup {<<[key |-> k, value |-> v]>> : k \in RunKeys, v \in RunValues}
\* what subprocess.run does with the command line
RunOutcomes ==
  {CompletedProcess(0, <<"h","e","l","l","o"," ","w","o","r","l","d","\n">>, <<>>),
   CompletedProcess(1, <<>>, <<"e","c","h","o",":"," ","w","r","i","t","e"," ","e","r","r","o","r">>),
   TimeoutExpired} \cup {Raised(m) : m \in Messages}

\* CommandWrapper(spec.name, spec)
InitRun ==
  /\ platform = "none"
  /\ pc = "wrapper"
  /\ spec \in WrappedSpecs
  /\ command_name = spec.name
  /\ calls = <<>> /\ help_text = None /\ result = <<>> /\ raised = "none"
  /\ usage = None /\ args = <<>>
  /\ run_args = <<>> /\ kwargs = <<>> /\ cmd_args = <<>> /\ execution = <<>>
  /\ IdleOption /\ IdleInfer /\ IdleWrapper /\ IdleFile

\* CommandWrapper.run(*a, **kw), subprocess.run ending in outcome
run(a, kw, outcome) ==
  /\ pc = "wrapper"
  /\ run_args' = a
  /\ kwargs' = kw
  /\ cmd_args' = CmdArgs(command_name, spec, a, kw)
  /\ calls' = <<Call(cmd_args', outcome)>>
  /\ execution' = <<Executed(cmd_args', DefaultTimeout, outcome)>>
  /\ pc' = "ran"
  /\ UNCHANGED <<platform, command_name, help_text, result, raised, usage,
                 args, spec, optionVars, inferVars, wrapperVars, fileVars>>

NextRun ==
  \E a \in RunArgs, kw \in RunKwargs, outcome \in RunOutcomes :
    run(a, kw, outcome)
SpecRun == InitRun /\ [][NextRun]_vars

(***************************************************************************)
(* One FileWriter and its calls of write_wrapper on one output path.       *)
(***************************************************************************)
MaxWrites == 3

\* the specifications written: two commands, and the first one again with
\* another option
VerboseOption == OptionSpec(<<"-","-","v","e","r","b","o","s","e">>, FALSE, <<"V","e","r","b","o","s","e"," ","o","u","t","p","u","t">>, "bool")
DebugOption == OptionSpec(<<"-","-","d","e","b","u","g">>, FALSE, <<"D","e","b","u","g"," ","o","u","t","p","u","t">>, "bool")
WrittenSpecs ==
  {CommandSpec(<<"c","m","d","1">>, <<"c","m","d","1"," ","[","o","p","t","i","o","n","s","]">>, <<VerboseOption>>, <<>>, <<>>, <<>>),
   CommandSpec(<<"c","m","d","1">>, <<"c","m","d","1"," ","[","o","p","t","i","o","n","s","]">>, <<DebugOption>>, <<>>, <<>>, <<>>),
   CommandSpec(<<"c","m","d","2">>, <<"c","m","d","2"," ","[","o","p","t","i","o","n","s","]">>, <<DebugOption>>, <<>>, <<>>, <<>>)}

\* the file before the first call: none, an empty one, a script, a plugin
\* written before, and files with the markers of a command
InitialFiles ==
  {Missing, <<>>, <<"p","r","i","n","t","(","'","h","i","'",")","\n">>,
   generate_mcp_plugin_code(
     CommandSpec(<<"c","m","d","1">>, <<"c","m","d","1"," ","[","o","p","t","i","o","n","s","]">>, <<VerboseOption>>, <<>>, <<>>, <<>>)),
   <<"#"," ","U","C","W","-","B","E","G","I","N",":"," ","c","m","d","1","\n","d","e","f"," ","e","x","e","c","u","t","e","_","c","o","m","m","a","n","d","(","a","r","g","s",")",":","\n","#"," ","U","C","W","-","E","N","D",":"," ","c","m","d","1","\n">>,
   <<"i","m","p","o","r","t"," ","s","y","s","\n","#"," ","U","C","W","-","E","N","D",":"," ","c","m","d","2","\n">>}

InitFile ==
  /\ platform = "none"
  /\ pc = "file"
  /\ initial_content \in InitialFiles
  /\ file_content = initial_content
  /\ writes = <<>>
  /\ IdleParser /\ IdleOption /\ IdleInfer /\ IdleWrapper /\ IdleRun

\* FileWriter.write_wrapper(s, wrapper, output_path, update)
write_wrapper(s, update) ==
  /\ pc = "file"
  /\ Len(writes) < MaxWrites
  /\ file_content' = WrittenBy(s, file_content, update)
  /\ writes' = Append(writes, [spec |-> s, update |-> update])
  /\ UNCHANGED <<parserVars, optionVars, inferVars, wrapperVars, runVars,
                 initial_content>>

NextFile == \E s \in WrittenSpecs, update \in BOOLEAN : write_wrapper(s, update)
SpecFile == InitFile /\ [][NextFile]_vars

(***************************************************************************)
(* FileWriter._update_wrapper_section called on a file that holds the      *)
(* sections of several commands.                                           *)
(***************************************************************************)
MaxUpdates == 2
SectionNames == {<<"g","i","t">>, <<"g","i","t","-","l","f","s">>, <<"l","s">>}
NewCodes == {<<"d","e","f"," ","n","e","w","_","f","u","n","c","t","i","o","n","(",")",":","\n"," "," "," "," ","p","a","s","s">>, <<"p","a","s","s">>}
\* the section of a command as _update_wrapper_section writes it
Section(name, code) ==
  <<"#"," ","U","C","W","-","B","E","G","I","N",":"," ">> \o name \o <<"\n">> \o code \o <<"\n">> \o <<"#"," ","U","C","W","-","E","N","D",":"," ">> \o name \o <<"\n">>
RECURSIVE Sections(_)
Sections(names) ==
  IF names = <<>> THEN <<>>
  ELSE Section(names[1], <<"d","e","f"," ","o","l","d","_","f","u","n","c","t","i","o","n","(",")",":","\n"," "," "," "," ","p","a","s","s">>) \o Sections(Tail(names))
\* files with the sections of at most two commands, after a first line or not
SectionFiles ==
  {head \o Sections(names) :
     head \in {<<>>, <<"#","!","/","u","s","r","/","b","i","n","/","e","n","v"," ","p","y","t","h","o","n","3","\n">>},
     names \in {ns \in TokenSeqs(SectionNames, 2) :
                  \A i, j \in 1..Len(ns) : i # j => ns[i] # ns[j]}}

InitSection ==
  /\ platform = "none"
  /\ pc = "section"
  /\ initial_content \in SectionFiles
  /\ file_content = initial_content
  /\ writes = <<>>
  /\ IdleParser /\ IdleOption /\ IdleInfer /\ IdleWrapper /\ IdleRun

\* content = writer._update_wrapper_section(content, name, new_code)
update_wrapper_section(name, new_code) ==
  /\ pc = "section"
  /\ Len(writes) < MaxUpdates
  /\ file_content' = _update_wrapper_section(file_content, name, new_code)
  /\ writes' = Append(writes, [name |-> name, code |-> new_code])
  /\ UNCHANGED <<parserVars, optionVars, inferVars, wrapperVars, runVars,
                 initial_content>>

NextSection ==
  \E name \in SectionNames, new_code \in NewCodes :
    update_wrapper_section(name, new_code)
SpecSection == InitSection /\ [][NextSection]_vars

(***************************************************************************)
(* Properties.                                                             *)
(***************************************************************************)
\* the call of parse_command has returned a CommandSpec
Done == pc = "done" /\ Len(result) = 1
\* _get_help_text has returned (the primary invocation was made)
Returned == pc \in {"parse", "done"} /\ calls # <<>>
PrimaryOutcome == calls[1].outcome
ArgShape(a) == <<a.name, a.required, a.variadic>>
ArgShapes(as) == [i \in 1..Len(as) |-> ArgShape(as[i])]
OptionShapes(os) == [i \in 1..Len(os) |-> <<os[i].flag, os[i].takes_value>>]

\* C1: the POSIX parser turns the help text "Usage: cp [OPTION]... [-T]
\* SOURCE DEST", a blank line, "  -r  recursive", "  -v  verbose" into the
\* usage "cp [OPTION]... [-T] SOURCE DEST", the positional args SOURCE and
\* DEST (in that order, required, not variadic) and the options -r and -v
\* (in that order, neither taking a value).
C1_CpScenario ==
  (Done /\ platform = "posix" /\ help_text = CpHelp) =>
    /\ result[1].usage = <<"c","p"," ","[","O","P","T","I","O","N","]",".",".","."," ","[","-","T","]"," ","S","O","U","R","C","E"," ","D","E","S","T">>
    /\ ArgShapes(result[1].positional_args)
         = << <<<<"S","O","U","R","C","E">>, TRUE, FALSE>>, <<<<"D","E","S","T">>, TRUE, FALSE>> >>
    /\ OptionShapes(result[1].options)
         = << <<<<"-","r">>, FALSE>>, <<<<"-","v">>, FALSE>> >>
C1_Witness == Done /\ platform = "posix" /\ help_text = CpHelp

\* the three sentinels _get_help_text can return for a command name
IsSentinel(text, name) ==
  \/ text = <<"N","o"," ","h","e","l","p"," ","a","v","a","i","l","a","b","l","e"," ","f","o","r"," ">> \o name
  \/ text = <<"H","e","l","p"," ","c","o","m","m","a","n","d"," ","t","i","m","e","d"," ","o","u","t"," ","f","o","r"," ">> \o name
  \/ \E m \in Messages : text = <<"F","a","i","l","e","d"," ","t","o"," ","g","e","t"," ","h","e","l","p"," ","f","o","r"," ">> \o name \o <<":"," ">> \o m

\* C2: for every non-empty command name and every outcome of the help
\* invocations, parse_command raises nothing and returns a CommandSpec with
\* that name; when no help could be acquired (the acquirer returned a
\* sentinel) the options are empty and the description is "".
C2_NeverRaisesAndEmptyOnFailure ==
  /\ (pc # "idle" /\ command_name # None /\ command_name # <<>>)
       => raised = "none"
  /\ (Done /\ command_name # <<>>) =>
       /\ result[1].name = command_name
       /\ IsSentinel(help_text, command_name) =>
            /\ result[1].options = <<>>
            /\ result[1].description = <<>>

\* the name is empty or consists only of whitespace
IsBlank(name) == \A i \in 1..Len(name) : name[i] \in Whitespace

\* C3: for a command name that is empty or only whitespace, parse_command
\* makes no help invocation and returns a specification whose usage,
\* options, positional args, description and examples are all empty.
C3_BlankNameNoAcquisition ==
  (pc # "idle" /\ raised = "none" /\ IsBlank(command_name)) =>
    /\ calls = <<>>
    /\ Done =>
         /\ result[1].usage = <<>> /\ result[1].options = <<>>
         /\ result[1].positional_args = <<>>
         /\ result[1].description = <<>> /\ result[1].examples = <<>>

\* C4: once the primary invocation has completed, the acquirer returns its
\* stdout without invoking an alternative exactly when the stripped stdout
\* has more than 20 characters, whatever the exit code.
C4_PrimaryAcceptedIffLong ==
  (Returned /\ PrimaryOutcome.kind = "completed") =>
    ((help_text = PrimaryOutcome.stdout /\ Len(calls) = 1)
       <=> Len(str_strip(PrimaryOutcome.stdout)) > 20)
\* an output of more than 20 characters accepted with exit code 1
C4_Witness ==
  /\ Returned /\ PrimaryOutcome.kind = "completed"
  /\ PrimaryOutcome.returncode = 1
  /\ Len(str_strip(PrimaryOutcome.stdout)) > 20
  /\ help_text = PrimaryOutcome.stdout /\ Len(calls) = 1

\* the invocations in the order in which the platform makes them
ExpectedCalls(plat, name) ==
  IF plat = "posix"
  THEN <<<<name, <<"-","-","h","e","l","p">>>>, <<<<"m","a","n">>, name>>, <<name, <<"-","h">>>>>>
  ELSE <<<<name, <<"/","?">>>>, <<name, <<"/","h","e","l","p">>>>>>
\* whether alternative number i (call number i + 1) produced a result
Produced(plat, i) ==
  LET o == calls[i + 1].outcome
  IN IF plat = "posix" THEN o.kind = "completed" /\ o.returncode = 0
     ELSE o.kind = "completed" /\ Len(str_strip(o.stdout)) > 20

\* C5: the alternatives are tried in a fixed order, each at most once: on
\* POSIX man <command>, then <command> -h only if man produced no result; on
\* Windows only <command> /help.  If no alternative produces a result the
\* acquirer returns exactly "No help available for <command>".
C5_AlternativesInOrder ==
  /\ Len(calls) <= Len(ExpectedCalls(platform, command_name))
  /\ \A i \in 1..Len(calls) :
       calls[i].cmd = ExpectedCalls(platform, command_name)[i]
  /\ (platform = "posix" /\ Len(calls) = 3) => ~Produced("posix", 1)
  /\ (platform = "posix" /\ Returned /\ Len(calls) = 2) => Produced("posix", 1)
  /\ (Returned /\ Len(calls) >= 2
        /\ \A i \in 1..(Len(calls) - 1) : ~Produced(platform, i))
       => help_text = <<"N","o"," ","h","e","l","p"," ","a","v","a","i","l","a","b","l","e"," ","f","o","r"," ">> \o command_name
\* man and -h have both failed and the sentinel is returned
C5_Witness ==
  /\ platform = "posix" /\ Returned /\ Len(calls) = 3
  /\ ~Produced("posix", 1) /\ ~Produced("posix", 2)
  /\ help_text = <<"N","o"," ","h","e","l","p"," ","a","v","a","i","l","a","b","l","e"," ","f","o","r"," ">> \o command_name

\* the primary invocation did not yield accepted help text
PrimaryFailed ==
  \/ PrimaryOutcome.kind \in {"timeout", "exception"}
  \/ Len(str_strip(PrimaryOutcome.stdout)) <= 20

\* C6 (as stated): whenever the primary invocation fails to produce
\* accepted help text, for whatever reason (insufficient output, timeout or
\* exception), the alternatives are then tried before the acquirer returns.
C6_AlternativesAfterAnyFailure ==
  (Returned /\ PrimaryFailed) => Len(calls) >= 2

\* C6 (amended): the alternatives are tried, in order and each at most
\* once, exactly when the primary invocation completes with insufficient
\* output; when it times out or raises, no alternative is invoked and the
\* acquirer returns at once.
C6_AlternativesOnlyAfterInsufficientOutput ==
  Returned =>
    /\ Len(calls) >= 2 <=>
         (/\ PrimaryOutcome.kind = "completed"
          /\ Len(str_strip(PrimaryOutcome.stdout)) <= 20)
    /\ PrimaryOutcome.kind \in {"timeout", "exception"} => Len(calls) = 1
    /\ \A i, j \in 1..Len(calls) : calls[i].cmd = calls[j].cmd => i = j
C6_Witness ==
  Returned /\ PrimaryOutcome.kind = "timeout" /\ Len(calls) = 1

\* C7: if the primary invocation times out the acquirer returns exactly
\* "Help command timed out for <command>"; if it raises an exception e,
\* exactly "Failed to get help for <command>: <str(e)>"; no exception
\* propagates.
C7_SentinelOnTimeoutOrException ==
  Returned =>
    /\ PrimaryOutcome.kind = "timeout" =>
         /\ help_text = <<"H","e","l","p"," ","c","o","m","m","a","n","d"," ","t","i","m","e","d"," ","o","u","t"," ","f","o","r"," ">> \o command_name
         /\ raised = "none"
    /\ PrimaryOutcome.kind = "exception" =>
         /\ help_text = <<"F","a","i","l","e","d"," ","t","o"," ","g","e","t"," ","h","e","l","p"," ","f","o","r"," ">> \o command_name \o <<":"," ">>
                          \o PrimaryOutcome.message
         /\ raised = "none"
C7_Witness ==
  /\ Returned /\ PrimaryOutcome.kind = "exception"
  /\ help_text = <<"F","a","i","l","e","d"," ","t","o"," ","g","e","t"," ","h","e","l","p"," ","f","o","r"," ","l","s",":"," ","U","n","e","x","p","e","c","t","e","d"," ","e","r","r","o","r">>

\* C8: for every command name X, running the extractors on a sentinel the
\* acquirer returned for X yields a specification with the name X and every
\* other field empty.
C8_SentinelYieldsEmptySpec ==
  (Done /\ command_name # <<>> /\ IsSentinel(help_text, command_name)) =>
    result[1] = CommandSpec(command_name, <<>>, <<>>, <<>>, <<>>, <<>>)

\* the usage text contains "<command>", whitespace, "<subcommand>"
HasCommandSubcommand(u) ==
  \E sep \in TokenSeparators :
    str_contains(str_lower(u), <<"<","c","o","m","m","a","n","d",">">> \o sep \o <<"<","s","u","b","c","o","m","m","a","n","d",">">>)

\* C9: for every usage text that contains "<command> <subcommand>" (in any
\* letter case, separated by whitespace), _extract_positional_args returns
\* exactly COMMAND then SUBCOMMAND, both required and not variadic,
\* whatever else the usage text contains.
C9_CommandSubcommandShortCircuit ==
  (pc = "done" /\ usage # None /\ HasCommandSubcommand(usage)) =>
    ArgShapes(args) = << <<<<"C","O","M","M","A","N","D">>, TRUE, FALSE>>,
                         <<<<"S","U","B","C","O","M","M","A","N","D">>, TRUE, FALSE>> >>
\* a usage with a head, a further placeholder and an upper-case letter
C9_Witness ==
  /\ pc = "done" /\ usage # None /\ HasCommandSubcommand(usage)
  /\ str_contains(usage, <<"[","<","a","r","g","s",">","]">>)
  /\ str_contains(usage, <<"<","C","o","m","m","a","n","d",">">>)
  /\ str_startswith(usage, <<"c","p">>)

\* C10 (as stated): extracting positional args from the already normalized
\* usage line "SOURCE DEST" yields the same as extracting them from
\* "cp [OPTION]... [-T] SOURCE DEST": SOURCE and DEST, both required and
\* not variadic.
C10_NormalizedYieldsSame ==
  (pc = "done" /\ usage = <<"S","O","U","R","C","E"," ","D","E","S","T">>) =>
    ArgShapes(args) = << <<<<"S","O","U","R","C","E">>, TRUE, FALSE>>, <<<<"D","E","S","T">>, TRUE, FALSE>> >>

\* C10 (amended): "cp [OPTION]... [-T] SOURCE DEST" yields SOURCE and DEST,
\* both required and not variadic; the already normalized "SOURCE DEST"
\* yields DEST alone (required, not variadic), its first word being taken
\* for the command name.
C10_FirstWordIsTheCommand ==
  /\ (pc = "done" /\ usage = <<"c","p"," ","[","O","P","T","I","O","N","]",".",".","."," ","[","-","T","]"," ","S","O","U","R","C","E"," ","D","E","S","T">>) =>
       ArgShapes(args)
         = << <<<<"S","O","U","R","C","E">>, TRUE, FALSE>>, <<<<"D","E","S","T">>, TRUE, FALSE>> >>
  /\ (pc = "done" /\ usage = <<"S","O","U","R","C","E"," ","D","E","S","T">>) =>
       ArgShapes(args) = << <<<<"D","E","S","T">>, TRUE, FALSE>> >>
C10_Witness == pc = "done" /\ usage = <<"S","O","U","R","C","E"," ","D","E","S","T">>

\* every token of the usage line is enclosed in square brackets
SolelyBracketed(u) ==
  LET ts == str_split_ws(u)
  IN ts # <<>> /\ \A i \in 1..Len(ts) : Bracketed(ts[i], "[", "]")
\* every token of the usage line is a bracketed option: "[-" ... "]"
SolelyBracketedOptions(u) ==
  /\ SolelyBracketed(u)
  /\ \A i \in 1..Len(str_split_ws(u)) :
       str_startswith(str_split_ws(u)[i], <<"[","-">>)

BracketedValueLines ==
  {indent \o flags \o <<" "," ","s","e","l","e","c","t"," ","e","n","c","o","d","e","r","/","d","e","c","o","d","e","r">> :
     indent \in Indents,
     flags \in {<<"-","c"," ","<","c","o","d","e","c",">">>, <<"-","c","[",":","<","s","t","r","e","a","m","_","s","p","e","c",">","]"," ","<","c","o","d","e","c",">">>}}

\* C12: the option line "-c[:<stream_spec>] <codec>  select encoder/decoder",
\* and every line of the same bracketed-value form, parses to an OptionSpec
\* with the flag "-c", takes_value = true and the description
\* "select encoder/decoder".
C12_BracketedValueTakesValue ==
  (pc = "done" /\ rendered = <<>> /\ line \in BracketedValueLines) =>
    /\ Len(option) = 1
    /\ option[1].flag = <<"-","c">>
    /\ option[1].takes_value = TRUE
    /\ option[1].description = <<"s","e","l","e","c","t"," ","e","n","c","o","d","e","r","/","d","e","c","o","d","e","r">>

\* C13: on POSIX, for every option line of the paired form "-x, --long"
\* (with or without "=VALUE" after the long form, with or without a
\* description) the flag of the OptionSpec is the long form; the short form
\* is the flag only when the line has no long form.
C13_LongFormIsCanonical ==
  (pc = "done" /\ platform = "posix" /\ rendered = <<>>) =>
    /\ str_contains(line, <<"-","w",","," ","-","-","w","i","d","t","h">>) =>
         Len(option) = 1 /\ option[1].flag = <<"-","-","w","i","d","t","h">>
    /\ (str_contains(line, <<"-","c">>) /\ ~str_contains(line, <<"-","-">>)) =>
         Len(option) = 1 /\ option[1].flag = <<"-","c">>

\* the flag is written the way the platform's parser reads flags
NativeFlag(plat, flag) ==
  \/ str_startswith(flag, <<"-">>)
  \/ plat = "windows" /\ str_startswith(flag, <<"/">>)

\* C15: for every OptionSpec o, the line printed for o (the flag, " <value>"
\* when o takes a value, then the description) is parsed by the option
\* extractor into an OptionSpec with the flag and the takes_value of o.
C15_RenderedOptionRoundTrip ==
  (pc = "done" /\ rendered # <<>> /\ NativeFlag(platform, rendered[1].flag)) =>
    /\ Len(option) = 1
    /\ option[1].flag = rendered[1].flag
    /\ option[1].takes_value = rendered[1].takes_value

\* the text of the inference contains one of the words, in any letter case
Mentions(words) == \E w \in words : str_contains(str_lower(hint_text), w)
PathKeywords == {<<"f","i","l","e">>, <<"p","a","t","h">>, <<"d","i","r","e","c","t","o","r","y">>, <<"d","i","r">>, <<"s","o","u","r","c","e">>,
                 <<"d","e","s","t">>, <<"t","a","r","g","e","t">>}
StrKeywords == {<<"p","a","t","t","e","r","n">>, <<"s","t","r","i","n","g">>, <<"t","e","x","t">>, <<"n","a","m","e">>}
IntKeywords == {<<"n","u","m","b","e","r">>, <<"c","o","u","n","t">>, <<"s","i","z","e">>, <<"p","o","r","t">>}
BoolKeywords == {<<"v","e","r","b","o","s","e">>, <<"q","u","i","e","t">>, <<"d","e","b","u","g">>}
\* the hint of the one inference the statement describes
UnifiedHint(site) ==
  IF site = "description" /\ hint_text = <<>> THEN NoHint
  ELSE IF Mentions(PathKeywords) THEN "path"
  ELSE IF Mentions(StrKeywords) THEN "str"
  ELSE IF Mentions(IntKeywords) THEN "int"
  ELSE IF site = "description" /\ Mentions(BoolKeywords) THEN "bool"
  ELSE "str"

\* C14 (as stated): type inference is one function at both call sites:
\* path (file, path, directory, dir, source, dest, target), then str
\* (pattern, string, text, name), then int (number, count, size, port), then
\* bool (verbose, quiet, debug; descriptions only), then str; the first
\* category that matches wins.
C14_OneInferenceAtBothSites ==
  (pc = "done" /\ hint # <<>>) => hint[2] = UnifiedHint(hint[1])

\* C14 (amended): argument names are inferred as stated, without the bool
\* category; option descriptions by a second function: no hint for an empty
\* description, else path (file, path, directory), then int (number, count,
\* size), then bool (verbose, quiet, debug), then str.
C14_TwoInferences ==
  (pc = "done" /\ hint # <<>>) =>
    /\ hint[1] = "name" => hint[2] = UnifiedHint("name")
    /\ hint[1] = "description" =>
         hint[2] = IF hint_text = <<>> THEN NoHint
                   ELSE IF Mentions({<<"f","i","l","e">>, <<"p","a","t","h">>, <<"d","i","r","e","c","t","o","r","y">>}) THEN "path"
                   ELSE IF Mentions({<<"n","u","m","b","e","r">>, <<"c","o","u","n","t">>, <<"s","i","z","e">>}) THEN "int"
                   ELSE IF Mentions(BoolKeywords) THEN "bool"
                   ELSE "str"
\* a description with "name" and "count" is an int
C14_Witness ==
  /\ pc = "done" /\ hint = <<"description", "int">>
  /\ hint_text = <<"n","a","m","e"," ","C","o","u","n","t">>

\* C16: caller-input violations are raised before any help invocation:
\* parse_command of None or of a non-string raises TypeError, and the
\* construction of a UniversalCommandWrapper with a platform name other than
\* windows, posix, linux, auto or none raises ValueError "Unknown platform",
\* so that no parser exists.
C16_CallerViolationsRaiseFirst ==
  /\ (pc # "new" /\ platform_name \notin
        {None, <<"w","i","n","d","o","w","s">>, <<"p","o","s","i","x">>, <<"l","i","n","u","x">>, <<"a","u","t","o">>}) =>
       /\ raised = Unknown
       /\ platform = "none"
       /\ calls = <<>>
  /\ (pc = "raised" /\ platform \in Platforms) =>
       /\ raised = "TypeError"
       /\ command_name = None
       /\ calls = <<>>

\* a appears in b, in order
RECURSIVE IsSubsequence(_, _)
IsSubsequence(a, b) ==
  IF a = <<>> THEN TRUE
  ELSE IF b = <<>> THEN FALSE
  ELSE IF a[1] = b[1] THEN IsSubsequence(Tail(a), Tail(b))
  ELSE IsSubsequence(a, Tail(b))

\* C17: for every call run(a1, ..., an, **kwargs), every supplied positional
\* argument appears in the executed command line, in call order and after the
\* command name, whatever number of positional args the wrapped
\* specification declares, none included.
C17_SuppliedArgsInCommandLine ==
  pc = "ran" =>
    /\ cmd_args # <<>> /\ cmd_args[1] = command_name
    /\ IsSubsequence(run_args, Tail(cmd_args))

\* the command line is the command name, then added, then supplied arguments
CommandLineAdds(added) ==
  \E n \in 0..Len(run_args) :
    cmd_args = <<command_name>> \o added \o SubSeq(run_args, 1, n)

\* what selecting option o with a value adds to the command line
SelectionAdds(o, value) ==
  IF o.takes_value
  THEN IF value.is_none THEN <<>> ELSE <<o.flag, value.str>>
  ELSE IF value.truthy THEN <<o.flag>> ELSE <<>>

\* a flag's normalized name: leading '-' and '/' stripped, inner '-' replaced
\* by '_', '?' becoming 'question' and empty becoming 'empty'
NormalizedName(flag) ==
  LET stripped == str_lstrip(flag, {"-", "/"})
  IN IF stripped = <<>> THEN <<"e","m","p","t","y">>
     ELSE IF stripped = <<"?">> THEN <<"q","u","e","s","t","i","o","n">>
     ELSE str_replace(stripped, "-", "_")

\* C18 as stated: for every option o of the wrapped specification, a keyword
\* equal to o's normalized name or to o.flag selects o: a boolean o adds its
\* flag exactly when the value is truthy, an o that takes a value adds
\* (o.flag, str(value)) exactly when the value is not None; a keyword matching
\* no option adds nothing.
C18_KeySelectsItsOption ==
  (pc = "ran" /\ Len(kwargs) = 1) =>
    LET key == kwargs[1].key
        value == kwargs[1].value
        matching == {i \in 1..Len(spec.options) :
                       key \in {NormalizedName(spec.options[i].flag),
                                spec.options[i].flag}}
    IN /\ \A i \in matching :
            CommandLineAdds(SelectionAdds(spec.options[i], value))
       /\ matching = {} => CommandLineAdds(<<>>)

\* C18: a keyword selects the first option of the specification whose
\* normalized name (leading '-' and '/' stripped, empty becoming 'empty', '-'
\* replaced by '_', a leading '?' becoming 'question', and, if that is not an
\* identifier, every character outside [a-zA-Z0-9_] replaced by '_' and '_'
\* put before a leading digit) equals the key, or else the first option whose
\* flag equals the key; the selected option adds its flag exactly when it is
\* boolean and the value is truthy, or (flag, str(value)) exactly when it
\* takes a value and the value is not None; a keyword selecting no option
\* adds nothing.
C18_KeySelectsFirstMatch ==
  (pc = "ran" /\ Len(kwargs) = 1) =>
    LET key == kwargs[1].key
        value == kwargs[1].value
        options == spec.options
        byName == {i \in 1..Len(options) :
                     _normalize_kwargs_key(options[i].flag) = key}
        byFlag == {i \in 1..Len(options) : options[i].flag = key}
        matching == IF byName # {} THEN byName ELSE byFlag
    IN IF matching = {} THEN CommandLineAdds(<<>>)
       ELSE \E i \in matching :
              /\ \A j \in matching : i <= j
              /\ CommandLineAdds(SelectionAdds(options[i], value))
\* -help and --help share the name help: the keyword help=True adds -help
C18_Witness ==
  /\ pc = "ran"
  /\ Len(spec.options) = 2
  /\ spec.options[1].flag = <<"-","h","e","l","p">> /\ spec.options[2].flag = <<"-","-","h","e","l","p">>
  /\ kwargs = <<[key |-> <<"h","e","l","p">>, value |-> PyValue(TRUE, FALSE, <<"T","r","u","e">>)]>>
  /\ cmd_args = <<<<"e","c","h","o">>, <<"-","h","e","l","p">>>>

\* C19: run never raises on an execution failure: a timeout yields an
\* ExecutionResult with return_code -1, empty stdout and a stderr containing
\* "timed out"; any other exception yields return_code -1 and a stderr
\* starting with "Command execution failed"; and success holds of a result
\* exactly when its return_code is 0.
C19_ExecutionFailureIsAResult ==
  pc = "ran" =>
    /\ raised = "none"
    /\ Len(execution) = 1
    /\ calls[1].outcome.kind = "timeout" =>
         /\ execution[1].return_code = -1
         /\ execution[1].stdout = <<>>
         /\ str_contains(execution[1].stderr, <<"t","i","m","e","d"," ","o","u","t">>)
    /\ calls[1].outcome.kind = "exception" =>
         /\ execution[1].return_code = -1
         /\ str_startswith(execution[1].stderr, <<"C","o","m","m","a","n","d"," ","e","x","e","c","u","t","i","o","n"," ","f","a","i","l","e","d">>)
    /\ success(execution[1]) <=> execution[1].return_code = 0
    /\ success(execution[1]) <=>
         (calls[1].outcome.kind = "completed" /\ calls[1].outcome.returncode = 0)
\* a call of run that timed out
C19_Witness ==
  /\ pc = "ran"
  /\ calls[1].outcome = TimeoutExpired
  /\ execution[1].stderr = <<"C","o","m","m","a","n","d"," ","t","i","m","e","d"," ","o","u","t"," ","a","f","t","e","r"," ","3","0"," ","s","e","c","o","n","d","s">>
  /\ ~success(execution[1])

\* the number of occurrences of sub in s
str_count(s, sub) == Cardinality(Occurrences(s, sub))

\* C20: starting from a missing file or a file with no UCW markers, with
\* plugin code that contains no UCW markers, after any sequence of
\* write_wrapper calls on the path (any specifications, update true or false)
\* the file is exactly the plugin code of the most recent call: it holds no
\* "# UCW-BEGIN:" or "# UCW-END:" marker, nothing of an earlier command, and
\* one definition each of main, setup_execute_command and execute_command.
C20_FileIsLatestPluginCode ==
  (/\ pc = "file" /\ writes # <<>>
   /\ initial_content = Missing \/ NoMarkers(initial_content)
   /\ \A k \in 1..Len(writes) :
        NoMarkers(generate_mcp_plugin_code(writes[k].spec))) =>
    LET latest == writes[Len(writes)].spec
    IN /\ file_content = generate_mcp_plugin_code(latest)
       /\ ~str_contains(file_content, <<"#"," ","U","C","W","-","B","E","G","I","N",":">>)
       /\ ~str_contains(file_content, <<"#"," ","U","C","W","-","E","N","D",":">>)
       /\ \A k \in 1..Len(writes) :
            writes[k].spec.name # latest.name =>
              ~str_contains(file_content,
                            <<"c","m","d","_","a","r","g","s"," ","="," ","[","\"">> \o writes[k].spec.name \o <<"\"","]">>)
       /\ str_count(file_content, <<"d","e","f"," ","m","a","i","n","(",")",":">>) = 1
       /\ str_count(file_content, <<"d","e","f"," ","s","e","t","u","p","_","e","x","e","c","u","t","e","_","c","o","m","m","a","n","d">>) = 1
       /\ str_count(file_content, <<"d","e","f"," ","e","x","e","c","u","t","e","_","c","o","m","m","a","n","d">>) = 1
\* cmd1 written to a script, then cmd2 and cmd2 again as updates
C20_Witness ==
  /\ pc = "file"
  /\ initial_content = <<"p","r","i","n","t","(","'","h","i","'",")","\n">>
  /\ Len(writes) = 3
  /\ writes[1].spec.name = <<"c","m","d","1">> /\ ~writes[1].update
  /\ writes[2].spec.name = <<"c","m","d","2">> /\ writes[2].update
  /\ writes[3].spec.name = <<"c","m","d","2">> /\ writes[3].update
  /\ str_contains(file_content, <<"c","m","d","_","a","r","g","s"," ","="," ","[","\"","c","m","d","2","\"","]">>)

\* a timeout resolved on its own: the constructor argument when one is given,
\* otherwise its environment variable when that parses as an integer,
\* otherwise its default
ResolvedAlone(given, value, default) ==
  IF given # <<>> THEN given
  ELSE IF value # Unset /\ py_int(value) # <<>> THEN py_int(value)
  ELSE <<default>>

\* C21: each of the two timeouts of UniversalCommandWrapper is resolved
\* independently of the other: it is the constructor argument when one is
\* given, otherwise the value of its own environment variable when that
\* parses as an integer, otherwise its default (10 for help, 30 for
\* execution); the parser receives the resolved help timeout.
C21_TimeoutsResolvedIndependently ==
  timeout_help # <<>> =>
    /\ timeout_help = ResolvedAlone(timeout_args.timeout_help,
                                    environ.UCW_TIMEOUT_HELP, 10)
    /\ timeout_exec = ResolvedAlone(timeout_args.timeout_exec,
                                    environ.UCW_TIMEOUT_EXEC, 30)
    /\ platform \in Platforms => parser_timeout = timeout_help

\* the name a token of the usage line stands for: surrounding [ ], a trailing
\* "..." and surrounding < > removed, in upper case
TokenName(token) ==
  LET inside == IF Bracketed(token, "[", "]") THEN Inner(token) ELSE token
      single == IF str_endswith(inside, <<".",".",".">>)
                THEN Slice(inside, 1, Len(inside) - 3) ELSE inside
  IN str_upper(IF Bracketed(single, "<", ">") THEN Inner(single) ELSE single)
\* the tokens of the usage line that stand for the arg
TokensOf(arg) ==
  {k \in 1..Len(str_split_ws(usage)) :
     TokenName(str_split_ws(usage)[k]) = arg.name}
\* the usage line holds one of the hierarchical-command idioms
Hierarchical ==
  \/ str_contains(str_lower(usage), <<"<","c","o","m","m","a","n","d",">">>)
  \/ str_contains(str_lower(usage), <<"[","<","a","r","g","s",">","]">>)
  \/ str_contains(str_lower(usage), <<"[","<","a","r","g","s",">",".",".",".","]">>)
  \/ str_contains(str_lower(usage), <<"<","a","r","g","s",">",".",".",".">>)

\* C22 as stated: for every positional arg returned, required is true
\* exactly when the corresponding token of the usage line is not enclosed in
\* surrounding [...] brackets: "<args>..." and "FILE" are required, "[<args>]"
\* and "[FILE]" are optional.
C22_RequiredIffUnbracketed ==
  (pc = "done" /\ usage # None) =>
    \A i \in 1..Len(args) :
      \E k \in TokensOf(args[i]) :
        args[i].required = ~Bracketed(str_split_ws(usage)[k], "[", "]")

\* C22: for every positional arg returned from a usage line without a
\* hierarchical-command idiom, required is true exactly when the
\* corresponding token is not enclosed in surrounding [...] brackets; from a
\* usage line with such an idiom ("<command>", "[<args>]", "<args>..." or
\* "[<args>...]") COMMAND and SUBCOMMAND are required and ARGS is optional,
\* whatever brackets the usage line has.
C22_RequiredIffUnbracketedOrIdiom ==
  (pc = "done" /\ usage # None) =>
    \A i \in 1..Len(args) :
      IF Hierarchical
      THEN /\ args[i].name \in {<<"C","O","M","M","A","N","D">>, <<"S","U","B","C","O","M","M","A","N","D">>, <<"A","R","G","S">>}
           /\ args[i].required = (args[i].name # <<"A","R","G","S">>)
      ELSE \E k \in TokensOf(args[i]) :
             args[i].required = ~Bracketed(str_split_ws(usage)[k], "[", "]")
\* an optional FILE and an unbracketed <args>... that is optional
C22_Witness ==
  /\ pc = "done"
  /\ \/ /\ usage = <<"c","p"," ","[","F","I","L","E",".",".",".","]">>
        /\ ArgShapes(args) = << <<<<"F","I","L","E">>, FALSE, TRUE>> >>
     \/ /\ usage = <<"c","p"," ","<","a","r","g","s",">",".",".",".">>
        /\ ArgShapes(args) = << <<<<"A","R","G","S">>, FALSE, TRUE>> >>

\* C23: for every positional arg returned with variadic = true, the stored
\* name has had its "..." suffix removed: no stored name of a variadic arg
\* ends with "...", for any usage line.
C23_VariadicNameStripped ==
  (pc = "done" /\ usage # None) =>
    \A i \in 1..Len(args) :
      args[i].variadic => ~str_endswith(args[i].name, <<".",".",".">>)

\* the usage line holds "[<args>]", "<args>..." or "[<args>...]"
HasArgsIdiom ==
  \/ str_contains(str_lower(usage), <<"[","<","a","r","g","s",">","]">>)
  \/ str_contains(str_lower(usage), <<"<","a","r","g","s",">",".",".",".">>)
  \/ str_contains(str_lower(usage), <<"[","<","a","r","g","s",">",".",".",".","]">>)

\* C24: if the usage text contains "<command>" (in any letter case) but not
\* "<command>" followed by whitespace and "<subcommand>",
\* _extract_positional_args returns COMMAND (required, not variadic),
\* followed by ARGS (optional, variadic) exactly when the usage also contains
\* "[<args>]", "<args>..." or "[<args>...]", and nothing else: no other token
\* of the usage line becomes a positional arg.
C24_LoneCommandIdiom ==
  (/\ pc = "done" /\ usage # None
   /\ str_contains(str_lower(usage), <<"<","c","o","m","m","a","n","d",">">>)
   /\ ~HasCommandSubcommand(usage)) =>
    ArgShapes(args)
      = << <<<<"C","O","M","M","A","N","D">>, TRUE, FALSE>> >>
          \o (IF HasArgsIdiom THEN << <<<<"A","R","G","S">>, FALSE, TRUE>> >> ELSE <<>>)
\* SOURCE is not an arg of "cp SOURCE <Command> [<args>]"
C24_Witness ==
  /\ pc = "done"
  /\ usage = <<"c","p"," ","S","O","U","R","C","E"," ","<","C","o","m","m","a","n","d",">"," ","[","<","a","r","g","s",">","]">>
  /\ ArgShapes(args) = << <<<<"C","O","M","M","A","N","D">>, TRUE, FALSE>>, <<<<"A","R","G","S">>, FALSE, TRUE>> >>

\* the lines of the parsed help text
ParsedLines == str_split(help_text, "\n")
\* a line whose trimmed lower-case form equals "usage" or contains "usage:",
\* "syntax:" or "command:"
HeaderLine(l) ==
  LET low == str_lower(str_strip(l))
  IN \/ low = <<"u","s","a","g","e">>
     \/ str_contains(low, <<"u","s","a","g","e",":">>)
     \/ str_contains(low, <<"s","y","n","t","a","x",":">>)
     \/ str_contains(low, <<"c","o","m","m","a","n","d",":">>)
SomeHeaderLine == \E i \in 1..Len(ParsedLines) : HeaderLine(ParsedLines[i])

\* C25: the usage of a parsed help text is the empty string exactly when no
\* line of the text is a usage header; whenever some line is a header the
\* usage is non-empty.
C25_UsageEmptyIffNoHeader ==
  (pc = "done" /\ result # <<>>) =>
    ((result[1].usage = <<>>) <=> ~SomeHeaderLine)
\* a header with no text of its own and no line that can start a usage after
\* it: the header line itself is the usage
C25_Witness ==
  /\ pc = "done" /\ result # <<>>
  /\ help_text = <<"U","S","A","G","E","\n","O","P","T","I","O","N","S">>
  /\ result[1].usage = <<"U","S","A","G","E">>

\* the first non-empty line of the parsed help text: its index, 0 if none
FirstNonEmpty ==
  LET full == {i \in 1..Len(ParsedLines) : str_strip(ParsedLines[i]) # <<>>}
  IN IF full = {} THEN 0 ELSE CHOOSE i \in full : \A j \in full : i <= j
\* no line opens a NAME section
NoNameSection ==
  \A i \in 1..Len(ParsedLines) : ~str_startswith(str_strip(ParsedLines[i]), <<"N","A","M","E">>)
\* a line of prose: neither a usage header nor prefixed like an option
ProseLine(l) ==
  /\ ~HeaderLine(l)
  /\ ~str_startswith(str_strip(l), <<"-">>)
  /\ ~str_startswith(str_strip(l), <<"/">>)

\* C26: for a help text without a NAME section, the description is never its
\* first non-empty line when that line is a usage header in any letter case,
\* and on both platforms a line of prose that is the first non-empty line
\* among the first 10 lines is the description.
C26_FallbackSkipsUsageLines ==
  (pc = "done" /\ result # <<>> /\ NoNameSection /\ FirstNonEmpty # 0) =>
    LET first == ParsedLines[FirstNonEmpty]
    IN /\ HeaderLine(first) => result[1].description # str_strip(first)
       /\ (FirstNonEmpty <= 10 /\ ProseLine(first)) =>
            result[1].description = str_strip(first)

\* the flag a line of the parsed help text defines: <<flag>>, or <<>> when
\* the line defines no option
FlagOfLine(i) ==
  LET l == str_strip(ParsedLines[i])
      o == IF _is_option_line(platform, l) THEN _parse_option_line(platform, l)
           ELSE <<>>
  IN IF o = <<>> THEN <<>> ELSE <<o[1].flag>>
\* the first line that defines the flag
FirstLineOf(flag) ==
  CHOOSE i \in 1..Len(ParsedLines) :
    /\ FlagOfLine(i) = <<flag>>
    /\ \A j \in 1..(i - 1) : FlagOfLine(j) # <<flag>>

\* C27: the options of a specification hold each distinct flag of the help
\* text once, in the order of the first lines that define the flags.
C27_OptionsOncePerFlag ==
  (pc = "done" /\ result # <<>>) =>
    LET options == result[1].options
    IN /\ \A i, j \in 1..Len(options) :
            i < j => options[i].flag # options[j].flag
       /\ \A i \in 1..Len(ParsedLines) :
            FlagOfLine(i) # <<>> =>
              \E k \in 1..Len(options) : options[k].flag = FlagOfLine(i)[1]
       /\ \A i, j \in 1..Len(options) :
            i < j => FirstLineOf(options[i].flag) <= FirstLineOf(options[j].flag)

\* C28: the Windows parser reads "/name description" as the option "/name"
\* with that description and takes_value = false, and "/name:value
\* description" as the option "/name" with takes_value = true.
C28_WindowsSimpleAndValueForms ==
  (platform = "windows" /\ pc = "done" /\ line # None) =>
    \A indent \in Indents, name \in WinNames, d \in WinDescriptions :
      /\ line = WinSimpleLine(indent, name, d) =>
           /\ option # <<>>
           /\ option[1].flag = <<"/">> \o name
           /\ option[1].description = d
           /\ ~option[1].takes_value
      /\ \A value \in WinValues :
           line = WinValueLine(indent, name, value, d) =>
             /\ option # <<>>
             /\ option[1].flag = <<"/">> \o name
             /\ option[1].takes_value

\* C29: every text the acquirer returns is one of its three sentinels or an
\* output whose stripped length exceeds 20 characters, on both platforms and
\* whichever invocation produced it.
C29_AcquiredTextIsSentinelOrMeaningful ==
  (help_text # None /\ command_name # None) =>
    \/ IsSentinel(help_text, command_name)
    \/ Len(str_strip(help_text)) > 20

\* the section of command B in content: the lines from the line
\* "# UCW-BEGIN: B" through the next line "# UCW-END: B"; <<>> if absent
SectionOf(content, B) ==
  LET lines == str_split(content, "\n")
      begins == {i \in 1..Len(lines) : lines[i] = <<"#"," ","U","C","W","-","B","E","G","I","N",":"," ">> \o B}
      b == CHOOSE i \in begins : \A j \in begins : i <= j
      ends == {i \in 1..Len(lines) : i > b /\ lines[i] = <<"#"," ","U","C","W","-","E","N","D",":"," ">> \o B}
      e == CHOOSE i \in ends : \A j \in ends : i <= j
  IN IF begins = {} THEN <<>>
     ELSE IF ends = {} THEN <<>>
     ELSE SubSeq(lines, b, e)

\* C30: a call of _update_wrapper_section for command A leaves the section of
\* every other command B that is present in the content as it was, also when
\* the name A is a prefix of the name B.
C30_OtherSectionsUntouched ==
  [][\A B \in SectionNames :
       (/\ writes' # writes
        /\ B # writes'[Len(writes')].name
        /\ SectionOf(file_content, B) # <<>>) =>
         SectionOf(file_content', B) = SectionOf(file_content, B)]_vars
====
